---- MODULE Spec2Model ----
(***************************************************************************)
(* Model of the ETL lifecycle controller (src/src/etl/base_etl.py) and of  *)
(* the derived-metrics engines (TTM, ratio, market metrics) of the         *)
(* financial data service.                                                 *)
(***************************************************************************)
EXTENDS Integers, Sequences, FiniteSets, TLC

VARIABLES
    \* ---- BaseETL object and one run() of it ----
    max_retries,        \* BaseETL.max_retries
    batch_size,         \* BaseETL.batch_size
    monitor,            \* TRUE iff self.monitor is set (enable_monitoring)
    hooks,              \* TRUE iff monitoring hooks are registered
    pc,                 \* position of run(): off/init/extract/transform/load/finally/returned/raised
    attempt,            \* loop variable of the retry loop in progress
    result,             \* self.result (ETLResult)
    raw_data,           \* local raw_data of run()
    transformed_data,   \* local transformed_data of run(): sequence of layers
    layer,              \* index of the layer _load_in_batches is at
    offset,             \* loop variable i of _load_in_batches
    total_loaded,       \* local total_loaded of _load_in_batches
    exc,                \* the exception in flight out of run(), or NoExc
    current_job_id,     \* self._current_job_id
    saved,              \* rows of ETL_JOB_HISTORY written by save_job_result
    dq_issues,          \* rows of ETL_DATA_QUALITY_ISSUES
    hook_failed,        \* TRUE iff some hook raised (and was swallowed)
    extract_calls,      \* history: number of extract() calls of this run
    extract_returned,   \* history: sequence holding the value extract() returned
    transform_calls,    \* history: arguments of the transform() calls
    transform_returned, \* history: TRUE iff transform() returned
    load_calls,         \* history: the load() calls that returned, in order
    load_invoked,       \* history: TRUE iff load() was called in this run
    tries,              \* history: number of load() calls made for the current batch
    exhausted,          \* history: TRUE iff max_retries load() calls of one batch raised
    \* ---- warehouse tables ----
    serial,             \* TRUE iff the orchestrator runs the steps one after the other
    fin,                \* ANALYTICS.FACT_FINANCIALS
    ttm,                \* ANALYTICS.FACT_FINANCIALS_TTM
    prices,             \* ANALYTICS.FACT_DAILY_PRICES
    ratios,             \* ANALYTICS.FACT_FINANCIAL_RATIOS
    metrics,            \* ANALYTICS.FACT_MARKET_METRICS
    merges,             \* number of fundamentals loads so far (bounded)
    price_loads,        \* number of price loads so far (bounded)
    \* ---- TTMCalculationETL.run() ----
    ttm_pc,             \* off/idle/extracted/transformed
    ttm_args,           \* the symbols argument of the run in progress
    opportunities,      \* local opportunities of run()
    ttm_records,        \* transformed_data['ttm_records'] of run()
    \* ---- FinancialRatioETL.run() ----
    rat_pc, rat_args, rat_raw, rat_records,
    \* ---- MarketMetricsETL.run() ----
    mm_pc, mm_args, mm_raw, mm_records,
    \* ---- history ----
    prev,               \* the last run() that returned, if no source load followed it
    \* ---- transform() of the ratio and of the market-metrics engine ----
    calc_pc,            \* off/loop/returned
    calc_engine,        \* "ratio" or "metrics"
    calc_in,            \* the raw_data argument: a sequence of extracted records
    calc_i,             \* number of iterations of the loop done
    calc_out,           \* local ratios_data / metrics_data
    calculation_errors, \* local calculation_errors
    calc_metadata,      \* self.result.metadata as transform() leaves it
    \* ---- a second run() on the same BaseETL object ----
    rerun,              \* TRUE iff run() has been called again on the object
    prior,              \* history: self.result as the previous run() left it
    \* ---- PipelineOrchestrator.run_daily_update ----
    orch_pc,            \* off/start/group1/group2/returned
    cli,                \* the command line args: symbols, skip flags, skip_analytics
    dry_run,            \* PipelineOrchestrator.dry_run
    th,                 \* position of each pipeline's runner
    etl,                \* the pipeline object of each independent runner
    existing_companies, \* CompanyETL.existing_companies
    co_i,               \* loop position of CompanyETL._update_analytics_layer
    co_closed,          \* TRUE iff the UPDATE of the record at co_i has been executed
    dependent_etls,     \* the dependent pipelines still to run
    results,            \* PipelineOrchestrator.results: status per pipeline
    all_success,        \* local all_success
    any_success,        \* local any_success
    exit_code,          \* the value run_daily_update returned
    dim_company,        \* ANALYTICS.DIM_COMPANY
    stg_prices,         \* STAGING.STG_HISTORICAL_PRICES
    stg_income,         \* STAGING.STG_INCOME_STATEMENT
    \* ---- HistoricalPriceETL.run() and FinancialStatementETL.run() ----
    src_pc,             \* off/extract/transform/fact/save/except/returned/raised
    src_engine,         \* "price" or "financial"
    src_cfg,            \* the call: number of symbols, update_analytics, monitor set
    src_i,              \* symbols extract() has gone through
    src_raw,            \* records extracted so far
    src_job_errors,     \* len(self.job_errors)
    src_result,         \* self.result
    src_saves,          \* rows of ETL_JOB_HISTORY this run wrote
    src_save_raised,    \* history: TRUE iff save_job_result raised in the try block
    src_phase_raised    \* history: TRUE iff extract, transform or load raised

baseVars == <<max_retries, batch_size, monitor, hooks, pc, attempt, result,
              raw_data, transformed_data, layer, offset, total_loaded, exc,
              current_job_id, saved, dq_issues, hook_failed, extract_calls,
              extract_returned, transform_calls, transform_returned, load_calls,
              load_invoked, tries, exhausted>>

whVars == <<fin, ttm, prices, ratios, metrics, merges, price_loads>>

ttmVars == <<ttm_pc, ttm_args, opportunities, ttm_records>>

ratVars == <<rat_pc, rat_args, rat_raw, rat_records>>

mmVars == <<mm_pc, mm_args, mm_raw, mm_records>>

calcVars == <<calc_pc, calc_engine, calc_in, calc_i, calc_out, calculation_errors,
              calc_metadata>>

rerunVars == <<rerun, prior>>

orchVars == <<orch_pc, cli, dry_run, th, etl, existing_companies, co_i, co_closed,
              dependent_etls, results, all_success, any_success, exit_code, dim_company,
              stg_prices, stg_income>>

srcVars == <<src_pc, src_engine, src_cfg, src_i, src_raw, src_job_errors, src_result,
             src_saves, src_save_raised, src_phase_raised>>

auxVars == <<calcVars, rerunVars, orchVars, srcVars>>

vars == <<baseVars, serial, whVars, ttmVars, ratVars, mmVars, prev, auxVars>>

\* ------------------------------------------------------------------ bounds
MaxRetriesCfg == 2
MaxBatchCfg == 2
MaxRecs == 2
MaxMerges == 1
MaxPriceLoads == 2
\* longest list of records handed to one transform() of a calculation engine
MaxCalcRecs == 2

\* -------------------------------------------------------------- BaseETL

NoExc == [src |-> "none", n |-> 0]
NoJob == 0

\* str(e), as appended by the except clause of run()
StrErr(e) == [kind |-> "str", e |-> e]
\* f"Failed to load batch: {str(e)}"
LoadBatchErr(e) == [kind |-> "load_batch", e |-> e]
\* an error a subclass appends to result.errors without raising
NonFatalErr == [kind |-> "nonfatal", e |-> [src |-> "symbol", n |-> 0]]

Records(n) == [i \in 1..n |-> i]

NewResult ==
    [status |-> "pending", end_time |-> FALSE, records_extracted |-> 0,
     records_transformed |-> 0, records_loaded |-> 0, errors |-> <<>>]

ShouldRetry_Always(att, maxr) == att < maxr
\* `if attempt < self.max_retries - 1` of both retry loops
ShouldRetry(att, maxr) == att < maxr - 1

IsEmpty_Never(n) == FALSE
\* `if not raw_data`
IsEmpty(n) == n = 0

\* `if self.result.errors: PARTIAL else: SUCCESS`
FinalStatus(errors) == IF Len(errors) > 0 THEN "partial" ELSE "success"

NextPhase_SkipTransform(phase) == IF phase = "finally" THEN "finally" ELSE "load"
\* the order of the phases in run(): extraction, then transformation, then load
NextPhase(phase) ==
    CASE phase = "extract" -> "transform"
      [] phase = "transform" -> "load"
      [] OTHER -> "finally"

\* transformed_data.get('staging', [])
Staging(td) ==
    LET S == {i \in 1..Len(td) : td[i].name = "staging"}
    IN  IF S = {} THEN <<>> ELSE td[CHOOSE i \in S : TRUE].recs

Slice_First(recs, i, size) == <<recs[i + 1]>>
\* records[i:i + self.batch_size]
Slice(recs, i, size) ==
    [k \in 1..(IF i + size <= Len(recs) THEN size ELSE Len(recs) - i) |-> recs[i + k]]

\* the first layer at or after li that has records (`if not records: continue`), or 0
NextLayer(td, li) ==
    LET S == {j \in li..Len(td) : Len(td[j].recs) > 0}
    IN  IF S = {} THEN 0 ELSE CHOOSE j \in S : \A k \in S : j <= k

\* _run_hooks: a raising hook is logged and swallowed
RunHooks ==
    \E raises \in {h \in BOOLEAN : h => hooks} : hook_failed' = (hook_failed \/ raises)

\* the except clause of run(): status FAILED, str(e) appended, re-raise
Fail(e, res) ==
    /\ result' = [res EXCEPT !.status = "failed", !.errors = Append(@, StrErr(e))]
    /\ exc' = e
    /\ pc' = "finally"

\* the rest of run() after _load_in_batches returned total
FinishLoad(total, res) ==
    /\ result' = [res EXCEPT !.records_loaded = total,
                             !.status = FinalStatus(res.errors)]
    /\ exc' = NoExc
    /\ pc' = "finally"

\* _load_in_batches positioned at layer li, offset off; past the last layer it returns
GotoBatch(td, li, off, total, res) ==
    LET here == li >= 1 /\ li <= Len(td) /\ off < Len(td[li].recs)
        nl   == IF here THEN li ELSE NextLayer(td, IF li = 0 THEN 1 ELSE li + 1)
    IN  IF nl = 0
        THEN /\ FinishLoad(total, res)
             /\ layer' = 0 /\ offset' = 0 /\ attempt' = 0 /\ total_loaded' = total
             /\ tries' = 0
        ELSE /\ layer' = nl
             /\ offset' = (IF here THEN off ELSE 0)
             /\ attempt' = 0
             /\ tries' = 0
             /\ total_loaded' = total
             /\ result' = res
             /\ exc' = NoExc
             /\ pc' = NextPhase("transform")

\* run(), lines 168-175: status RUNNING, _current_job_id = None, pre-extract hooks
RunStart ==
    /\ pc = "init"
    /\ result' = [result EXCEPT !.status = "running"]
    /\ current_job_id' = NoJob
    /\ RunHooks
    /\ attempt' = 0
    /\ pc' = "extract"
    /\ UNCHANGED <<max_retries, batch_size, monitor, hooks, raw_data, transformed_data,
                   layer, offset, total_loaded, exc, saved, dq_issues, extract_calls,
                   extract_returned, transform_calls, transform_returned, load_calls,
                   load_invoked, tries, exhausted>>

\* run(), lines 177-189, with the value _extract_with_retry returned
AfterExtract(data, res) ==
    LET res1 == [res EXCEPT !.records_extracted = Len(data)]
    IN  /\ raw_data' = data
        /\ RunHooks
        /\ IF IsEmpty(Len(data))
           THEN /\ result' = [res1 EXCEPT !.status = "success", !.end_time = TRUE]
                /\ exc' = NoExc
                /\ pc' = "finally"
           ELSE /\ result' = res1
                /\ exc' = NoExc
                /\ pc' = NextPhase("extract")

\* one iteration of the loop of _extract_with_retry
ExtractAttempt ==
    /\ pc = "extract"
    /\ extract_calls' = extract_calls + 1
    /\ \/ \E n \in 0..MaxRecs, nerr \in 0..1 :
            \* extract() returns; a subclass may have recorded per-symbol failures
            LET res == [result EXCEPT !.errors =
                           IF nerr = 1 THEN Append(@, NonFatalErr) ELSE @]
            IN  /\ extract_returned' = <<Records(n)>>
                /\ AfterExtract(Records(n), res)
                /\ attempt' = attempt
       \/ LET e == [src |-> "extract", n |-> extract_calls + 1]
          IN  IF ShouldRetry(attempt, max_retries)
              THEN IF attempt + 1 < max_retries
                   THEN /\ attempt' = attempt + 1
                        /\ UNCHANGED <<pc, result, raw_data, exc, hook_failed,
                                       extract_returned>>
                   ELSE \* the loop ends: `return []`
                        /\ attempt' = attempt + 1
                        /\ AfterExtract(<<>>, result)
                        /\ UNCHANGED extract_returned
              ELSE /\ Fail(e, result)
                   /\ UNCHANGED <<attempt, raw_data, hook_failed, extract_returned>>
    /\ UNCHANGED <<max_retries, batch_size, monitor, hooks, transformed_data, layer,
                   offset, total_loaded, current_job_id, saved, dq_issues,
                   transform_calls, transform_returned, load_calls, load_invoked,
                   tries, exhausted>>

\* the values transform() may return for raw_data: an optional raw layer and a
\* staging layer of k records, `invalid` of which fail validation
TransformOutputs(data) ==
    { (IF withRaw THEN <<[name |-> "raw", recs |-> data, invalid |-> 0]>> ELSE <<>>)
        \o <<[name |-> "staging", recs |-> Records(k), invalid |-> inv]>> :
      withRaw \in BOOLEAN, k \in 0..Len(data), inv \in 0..1 }

\* run(), lines 189-198: _transform_with_validation, then the start of the load phase
TransformStep ==
    /\ pc = "transform"
    /\ transform_calls' = Append(transform_calls, raw_data)
    /\ \/ \* transform() raises
          /\ Fail([src |-> "transform", n |-> 1], result)
          /\ UNCHANGED <<transformed_data, layer, offset, attempt, total_loaded,
                         dq_issues, hook_failed, transform_returned, tries>>
       \/ \E td \in TransformOutputs(raw_data) :
            LET st   == Staging(td)
                inv  == IF Len(st) = 0 THEN 0
                        ELSE td[CHOOSE i \in 1..Len(td) : td[i].name = "staging"].invalid
                bad  == IF inv <= Len(st) THEN inv ELSE Len(st)
                res1 == [result EXCEPT !.records_transformed = Len(st)]
            IN  /\ transform_returned' = TRUE
                /\ transformed_data' = td
                /\ \/ \* validation passes, or its issues are logged and saved
                      /\ dq_issues' = IF bad > 0 /\ monitor
                                      THEN dq_issues \cup {[job_id |-> current_job_id,
                                                            issues |-> bad]}
                                      ELSE dq_issues
                      /\ RunHooks
                      /\ GotoBatch(td, 0, 0, 0, res1)
                   \/ \* validator.validate_batch raises
                      /\ Len(st) > 0
                      /\ Fail([src |-> "validation", n |-> 1], result)
                      /\ UNCHANGED <<layer, offset, attempt, total_loaded, dq_issues,
                                     hook_failed, tries>>
                   \/ \* monitor.save_data_quality_issues raises
                      /\ bad > 0 /\ monitor
                      /\ Fail([src |-> "dq_save", n |-> 1], result)
                      /\ UNCHANGED <<layer, offset, attempt, total_loaded, dq_issues,
                                     hook_failed, tries>>
    /\ UNCHANGED <<max_retries, batch_size, monitor, hooks, raw_data, current_job_id,
                   saved, extract_calls, extract_returned, load_calls, load_invoked,
                   exhausted>>

\* one iteration of the retry loop of _load_in_batches for the batch at (layer, offset)
LoadAttempt ==
    /\ pc = "load"
    /\ load_invoked' = TRUE
    /\ LET recs  == transformed_data[layer].recs
           batch == Slice(recs, offset, batch_size)
       IN  \/ \* load() returns a count: every record of the batch, or none of them new
              \E loaded \in {Len(batch), 0} :
                /\ load_calls' = Append(load_calls,
                                        [layer |-> transformed_data[layer].name,
                                         offset |-> offset, batch |-> batch,
                                         loaded |-> loaded])
                /\ UNCHANGED exhausted
                /\ GotoBatch(transformed_data, layer, offset + batch_size,
                             total_loaded + loaded, result)
           \/ \* load() raises
              LET e == [src |-> "load", n |-> tries + 1]
              IN  /\ UNCHANGED load_calls
                  /\ exhausted' = (exhausted \/ tries + 1 >= max_retries)
                  /\ IF ShouldRetry(attempt, max_retries)
                     THEN IF attempt + 1 < max_retries
                          THEN /\ attempt' = attempt + 1
                               /\ tries' = tries + 1
                               /\ UNCHANGED <<pc, exc, result, layer, offset, total_loaded>>
                          ELSE \* the retry loop ends without a load: next batch
                               GotoBatch(transformed_data, layer, offset + batch_size,
                                         total_loaded, result)
                     ELSE /\ Fail(e, [result EXCEPT !.errors = Append(@, LoadBatchErr(e))])
                          /\ tries' = tries + 1
                          /\ UNCHANGED <<attempt, layer, offset, total_loaded>>
    /\ IF pc' = "finally" /\ exc' = NoExc THEN RunHooks ELSE UNCHANGED hook_failed
    /\ UNCHANGED <<max_retries, batch_size, monitor, hooks, raw_data, transformed_data,
                   current_job_id, saved, dq_issues, extract_calls, extract_returned,
                   transform_calls, transform_returned>>

\* the finally clause of run(): end_time, then the job result is persisted
SaveFailed_Recorded(res) ==
    [res EXCEPT !.status = "failed", !.errors = Append(res.errors, StrErr("save_job_result"))]
\* lines 226-227: the except branch around save_job_result only logs
SaveFailed(res) == res

\* the finally block of run()
Finally ==
    /\ pc = "finally"
    /\ LET res == [result EXCEPT !.end_time = TRUE]
           row(id) == [job_id |-> id, status |-> res.status, end_time |-> res.end_time,
                       error_count |-> Len(res.errors)]
       IN  \/ \* save_job_result returns the job id
              /\ monitor
              /\ \E id \in {Cardinality(saved) + 1} :
                   /\ saved' = saved \cup {row(id)}
                   /\ current_job_id' = id
              /\ result' = res
           \/ \* save_job_result raises after the job row is in, saving the errors
              /\ monitor
              /\ Len(res.errors) > 0
              /\ saved' = saved \cup {row(Cardinality(saved) + 1)}
              /\ result' = SaveFailed(res)
              /\ UNCHANGED current_job_id
           \/ \* save_job_result raises before that
              /\ monitor
              /\ result' = SaveFailed(res)
              /\ UNCHANGED <<saved, current_job_id>>
           \/ /\ ~monitor
              /\ result' = res
              /\ UNCHANGED <<saved, current_job_id>>
    /\ pc' = IF exc = NoExc THEN "returned" ELSE "raised"
    /\ UNCHANGED <<max_retries, batch_size, monitor, hooks, attempt, raw_data,
                   transformed_data, layer, offset, total_loaded, exc, dq_issues,
                   hook_failed, extract_calls, extract_returned, transform_calls,
                   transform_returned, load_calls, load_invoked, tries, exhausted>>

\* ------------------------------------------------------------ warehouse
\* Dates are numbered by calendar month; a timestamp is <<date, time of day>>.

Companies == {1, 2}
FiscalDates == {0, 3, 6, 9, 12}
AcceptTimes == {<<13, 0>>, <<13, 1>>, <<16, 0>>}
PriceDates == {13, 16}
\* SQL NULL, Python None
NULL == -1
\* an outer join that found no row
NoRow == [none |-> TRUE]

\* the period label of the quarter ending at fiscal date f
QuarterOf(f) ==
    CASE (f \div 3) % 4 = 1 -> "Q1"
      [] (f \div 3) % 4 = 2 -> "Q2"
      [] (f \div 3) % 4 = 3 -> "Q3"
      [] OTHER -> "Q4"

\* the fundamentals rows a load may upsert: a quarterly row for each fiscal date and
\* an annual row for the fiscal year end; a restated filing carries other figures
Filings ==
    { [company |-> c, fiscal |-> f, ptype |-> p, accepted |-> a,
       revenue |-> 100 + f + a[1] + a[2], shares |-> 10 + f] :
        c \in Companies, f \in FiscalDates, p \in {"Q1", "Q2", "Q3", "Q4", "FY"},
        a \in AcceptTimes }

\* company 1 files every period, restatements included; company 2 files one quarter
ValidFiling(r) ==
    /\ r.ptype = QuarterOf(r.fiscal) \/ (r.ptype = "FY" /\ r.fiscal = 12)
    /\ r.company # 1 => (r.fiscal = 12 /\ r.ptype = "Q4" /\ r.accepted = <<13, 0>>)

\* the price rows a price load may insert: company 2 trades on one of the days
PriceRows ==
    { p \in { [company |-> c, date |-> d, close |-> 50 + d] :
                c \in Companies, d \in PriceDates } : p.company # 1 => p.date = 13 }

\* FACT_FINANCIALS.financial_key: one per (company, fiscal date, period type); the MERGE
\* keeps it when it updates the row
FinancialKey(r) == <<r.company, r.fiscal, r.ptype>>

\* timestamp comparison a <= b
TsLeq(a, b) == a[1] < b[1] \/ (a[1] = b[1] /\ a[2] <= b[2])
\* accepted_date::DATE
DateOf(ts) == ts[1]
\* a DATE compared with a TIMESTAMP is that date at 00:00
Midnight(d) == <<d, 0>>

LookbackMonths == 15
\* DATEADD(month, -n, d)
MonthsBefore(d, n) == d - n

\* HAVING COUNT(DISTINCT qd.fiscal_date_key) >= 4
MinQuarters == 4

\* period_type IN ('Q1', 'Q2', 'Q3', 'Q4')
IsQuarterly(p) == p \in {"Q1", "Q2", "Q3", "Q4"}

\* `if symbols:` ... AND symbol IN (...); None and the empty list select everything
SymbolMatch(symbols, c) == symbols = {} \/ c \in symbols

\* `if start_date:` ... AND date >= start ; `if end_date:` ... AND date <= end
DateMatch(args, d) ==
    /\ args.start_date = NULL \/ d >= args.start_date
    /\ args.end_date = NULL \/ d <= args.end_date

\* the arguments of the three run() methods
TTMArgs == { [symbols |-> s, start_date |-> NULL, end_date |-> NULL] : s \in {{}, {1}} }
RatioArgs == { [symbols |-> {}, start_date |-> NULL, end_date |-> hi] : hi \in {NULL, 9} }
MMArgs == { [symbols |-> {}, start_date |-> NULL, end_date |-> NULL],
            [symbols |-> {1}, start_date |-> 16, end_date |-> NULL] }

\* the MERGE of update_fact_table: a row matching (company, fiscal date, period
\* type) is updated in place, another one is inserted
MergeInto(table, r) ==
    {x \in table : FinancialKey(x) # FinancialKey(r)} \cup {r}

\* ---- TTMCalculationETL

\* CTE calculation_dates
CalculationDates(f) ==
    { [company |-> q.company, calculation_date |-> DateOf(q.accepted),
       accepted_date |-> q.accepted] : q \in {r \in f : IsQuarterly(r.ptype)} }

AvailableQuarters_Any(f, company, accepted_date, calculation_date) ==
    { q \in f : /\ q.company = company
                /\ IsQuarterly(q.ptype)
                /\ q.fiscal > MonthsBefore(calculation_date, LookbackMonths) }
\* the quarterly rows of a company known at accepted_date, inside the lookback
\* window of calculation_date (the join of ttm_opportunities, CTE available_quarters)
AvailableQuarters(f, company, accepted_date, calculation_date) ==
    { q \in f : /\ q.company = company
                /\ IsQuarterly(q.ptype)
                /\ TsLeq(q.accepted, accepted_date)
                /\ q.fiscal > MonthsBefore(calculation_date, LookbackMonths) }

\* CTE ttm_opportunities
TTMOpportunities(f) ==
    { cd \in CalculationDates(f) :
        Cardinality({ q.fiscal : q \in AvailableQuarters(f, cd.company, cd.accepted_date,
                                                         cd.calculation_date) })
            >= MinQuarters }

ExistingTTM_None(t, o) == FALSE
\* LEFT JOIN FACT_FINANCIALS_TTM existing ... WHERE existing.ttm_key IS NULL
ExistingTTM(t, o) ==
    \E e \in t : e.company = o.company /\ e.calculation_date = o.calculation_date

\* the query of TTMCalculationETL.extract
TTMExtractQuery(f, t, args) ==
    { o \in TTMOpportunities(f) : ~ExistingTTM(t, o) /\ SymbolMatch(args.symbols, o.company) }

\* WHERE quarter_rank <= 4, ranked by fiscal date descending
TopQuarters(rows) ==
    { q \in rows : Cardinality({p \in rows : p.fiscal > q.fiscal}) < 4 }

RECURSIVE SumOf(_, _)
\* SUM(column)
SumOf(rows, col) ==
    IF rows = {} THEN 0
    ELSE LET r == CHOOSE x \in rows : TRUE IN r[col] + SumOf(rows \ {r}, col)

\* the aggregation query of transform and the TTM record built from its one row
TTMRecord(f, o) ==
    LET used == TopQuarters(AvailableQuarters(f, o.company, o.accepted_date,
                                              o.calculation_date))
        fiscals == {q.fiscal : q \in used}
        newest == IF used = {} THEN NULL ELSE CHOOSE x \in fiscals : \A y \in fiscals : y <= x
        oldest == IF used = {} THEN NULL ELSE CHOOSE x \in fiscals : \A y \in fiscals : x <= y
    IN  [company |-> o.company,
         calculation_date |-> o.calculation_date,
         accepted_date |-> o.accepted_date,
         quarters_included |-> Cardinality(used),
         oldest_quarter_date |-> oldest,
         newest_quarter_date |-> newest,
         ttm_revenue |-> IF used = {} THEN NULL ELSE SumOf(used, "revenue"),
         latest_shares_outstanding |->
             IF used = {} THEN NULL
             ELSE (CHOOSE q \in used : q.fiscal = newest).shares,
         \* history: the fundamentals rows the record was computed from, and the rows
         \* of the window that were on file but accepted later
         contributing |-> used,
         withheld |-> { q \in f : /\ q.company = o.company
                                  /\ IsQuarterly(q.ptype)
                                  /\ ~TsLeq(q.accepted, o.accepted_date)
                                  /\ q.fiscal > MonthsBefore(o.calculation_date,
                                                             LookbackMonths) }]

\* ---- FinancialRatioETL

\* the query of FinancialRatioETL.extract: every period type, skipping the rows that
\* have a ratio row
RatioExtractQuery(f, rt, args) ==
    { r \in f : /\ SymbolMatch(args.symbols, r.company)
                /\ DateMatch(args, r.fiscal)
                /\ ~\E x \in rt : x.financial_key = FinancialKey(r) }

\* the ratio record transform builds from one fundamentals row
RatioRecord(r) ==
    [financial_key |-> FinancialKey(r), company |-> r.company, fiscal |-> r.fiscal]

\* ---- MarketMetricsETL

AsOf_SameDay(ts, price_date) == DateOf(ts) <= price_date
\* f.accepted_date <= p.price_date
AsOf(ts, price_date) == TsLeq(ts, Midnight(price_date))

\* the rows FIRST_VALUE(...) OVER (PARTITION BY price_key ORDER BY accepted_date DESC)
\* may pick: one of the rows with the greatest accepted date
Latest(rows, col) == { r \in rows : \A o \in rows : TsLeq(o[col], r[col]) }

\* CTE latest_quarterly joined back to FACT_FINANCIALS
LatestQuarterly(f, p) ==
    Latest({ r \in f : /\ r.company = p.company
                        /\ AsOf(r.accepted, p.date)
                        /\ IsQuarterly(r.ptype) }, "accepted")

\* CTE latest_ttm joined back to FACT_FINANCIALS_TTM
LatestTTM(t, p) ==
    Latest({ r \in t : r.company = p.company /\ AsOf(r.accepted_date, p.date) },
           "accepted_date")

OrNoRow(rows) == IF rows = {} THEN {NoRow} ELSE rows

MMSelected_Again(pr, f, t, mm, args) ==
    { p \in pr : /\ SymbolMatch(args.symbols, p.company)
                 /\ DateMatch(args, p.date)
                 /\ (LatestQuarterly(f, p) # {} \/ LatestTTM(t, p) # {}) }
\* the price rows the extraction selects
MMSelected(pr, f, t, mm, args) ==
    { p \in pr : /\ SymbolMatch(args.symbols, p.company)
                 /\ DateMatch(args, p.date)
                 /\ ~\E m \in mm : m.company = p.company /\ m.date = p.date
                 /\ (LatestQuarterly(f, p) # {} \/ LatestTTM(t, p) # {}) }

\* the results the query of MarketMetricsETL.extract may return: each selected price
\* row once, with one latest quarterly row and one latest TTM row
MMExtractResults(pr, f, t, mm, args) ==
    LET sel == MMSelected(pr, f, t, mm, args)
        cands == UNION { { [price |-> p, financial |-> q, ttm |-> x] :
                             q \in OrNoRow(LatestQuarterly(f, p)),
                             x \in OrNoRow(LatestTTM(t, p)) } : p \in sel }
    IN  { raw \in SUBSET cands :
            \A p \in sel : Cardinality({x \in raw : x.price = p}) = 1 }

\* the metric record transform builds from one extracted row
MetricRecord(x) ==
    [company |-> x.price.company, date |-> x.price.date,
     financial_key |-> IF x.financial = NoRow THEN <<>> ELSE FinancialKey(x.financial),
     fiscal_period |-> IF x.financial = NoRow THEN "TTM" ELSE x.financial.ptype,
     close_price |-> x.price.close]

\* ---- the summaries run() returns

NoSummary ==
    [status |-> "none", records_processed |-> NULL, records_extracted |-> NULL,
     records_loaded |-> NULL, calculation_errors |-> NULL]
\* {'status': 'success', 'records_processed': 0, 'message': ...}
EmptySummary ==
    [status |-> "success", records_processed |-> 0, records_extracted |-> NULL,
     records_loaded |-> NULL, calculation_errors |-> NULL]
\* {'status': 'failed', 'error': str(e), 'records_processed': 0}
FailedSummary ==
    [status |-> "failed", records_processed |-> 0, records_extracted |-> NULL,
     records_loaded |-> NULL, calculation_errors |-> NULL]
\* the TTM engine: {'status': 'success', 'opportunities_found': n, 'records_loaded': k}
SuccessSummary(n, k) ==
    [status |-> "success", records_processed |-> NULL, records_extracted |-> n,
     records_loaded |-> k, calculation_errors |-> NULL]
\* the ratio and market-metrics engines: {'status': 'success', 'records_extracted': n,
\* 'records_loaded': k, 'calculation_errors': e}
CountedSummary(n, k, e) ==
    [status |-> "success", records_processed |-> NULL, records_extracted |-> n,
     records_loaded |-> k, calculation_errors |-> e]

\* ---- history of the last run

NoRun ==
    [engine |-> "none", args |-> NoRow, out |-> NoSummary, yielded |-> NULL,
     calls |-> {}, complete |-> FALSE, load_attempts |-> 0, propagated |-> FALSE]

\* no run() is between two of its steps
Quiet ==
    /\ ttm_pc \in {"off", "idle"}
    /\ rat_pc \in {"off", "idle"}
    /\ mm_pc \in {"off", "idle"}

\* the orchestrator runs one pipeline step after the other
Scheduled == serial => Quiet

\* max_retries of the derived engines: the default of BaseETL.__init__
EngineMaxRetries == 3

\* the bulk_insert calls one load() of a derived engine makes
LoadAttempts == 1

\* run() leaves the exception of a failed phase to its caller
Propagates(out) == FALSE

\* a run() of `engine` returns `out`: its extract yielded `yielded` rows (NULL if it
\* raised), it invoked the phases `calls`, and `complete` tells that it returned
\* success having loaded every row it extracted
EndRun(engine, args, out, yielded, calls, complete) ==
    IF serial
    THEN prev' = [engine |-> engine, args |-> args, out |-> out, yielded |-> yielded,
                  calls |-> calls, complete |-> complete,
                  \* load() makes one bulk_insert call, and only for a non-empty list
                  load_attempts |-> IF "load" \in calls /\ out.records_loaded # 0
                                    THEN LoadAttempts ELSE 0,
                  \* run() ends in `except Exception: return {'status': 'failed', ...}`
                  propagated |-> Propagates(out)]
    ELSE UNCHANGED prev

AllPhases == {"extract", "transform", "load"}

\* ---- loads of the source tables

\* FinancialStatementETL.update_fact_table: one staged statement is merged
MergeFinancials ==
    /\ ttm_pc # "off" \/ rat_pc # "off"
    /\ Scheduled
    /\ merges < MaxMerges
    /\ \E r \in Filings :
         /\ ValidFiling(r)
         /\ r \notin fin
         /\ fin' = MergeInto(fin, r)
    /\ merges' = merges + 1
    /\ prev' = NoRun
    /\ UNCHANGED <<baseVars, auxVars, serial, ttm, prices, ratios, metrics, price_loads, ttmVars,
                   ratVars, mmVars>>

\* DailyPriceETL: the price of one company and day is loaded
LoadPrices ==
    /\ mm_pc # "off"
    /\ Scheduled
    /\ price_loads < MaxPriceLoads
    /\ \E p \in PriceRows :
         /\ ~\E x \in prices : x.company = p.company /\ x.date = p.date
         /\ prices' = prices \cup {p}
    /\ price_loads' = price_loads + 1
    /\ prev' = NoRun
    /\ UNCHANGED <<baseVars, auxVars, serial, fin, ttm, ratios, metrics, merges, ttmVars, ratVars,
                   mmVars>>

\* ---- TTMCalculationETL.run

\* lines 335-345: extract
TTMExtract ==
    /\ ttm_pc = "idle"
    /\ Scheduled
    /\ \E args \in TTMArgs :
         \/ \* fetch_all raises: run() returns the failed summary
            /\ EndRun("ttm", args, FailedSummary, NULL, {"extract"}, FALSE)
            /\ UNCHANGED <<ttm_pc, ttm_args, opportunities>>
         \/ LET opps == TTMExtractQuery(fin, ttm, args)
            IN  IF IsEmpty(Cardinality(opps))
                THEN /\ EndRun("ttm", args, EmptySummary, 0, {"extract"}, TRUE)
                     /\ UNCHANGED <<ttm_pc, ttm_args, opportunities>>
                ELSE /\ opportunities' = opps
                     /\ ttm_args' = args
                     /\ ttm_pc' = "extracted"
                     /\ UNCHANGED prev
    /\ UNCHANGED <<baseVars, auxVars, serial, whVars, ttm_records, ratVars, mmVars>>

\* transform: one aggregation query per opportunity; an opportunity whose query
\* raises is logged and dropped
TTMTransform ==
    /\ ttm_pc = "extracted"
    /\ \E dropped \in {{}} \cup {{o} : o \in opportunities} :
         ttm_records' = { TTMRecord(fin, o) : o \in opportunities \ dropped }
    /\ ttm_pc' = "transformed"
    /\ UNCHANGED <<baseVars, auxVars, serial, whVars, ttm_args, opportunities, ratVars, mmVars,
                   prev>>

\* load and the end of run()
TTMLoad ==
    /\ ttm_pc = "transformed"
    /\ \/ \* bulk_insert returns (no insert is made for an empty list)
          /\ ttm' = ttm \cup ttm_records
          /\ EndRun("ttm", ttm_args,
                    SuccessSummary(Cardinality(opportunities), Cardinality(ttm_records)),
                    Cardinality(opportunities), AllPhases,
                    Cardinality(ttm_records) = Cardinality(opportunities))
       \/ \* bulk_insert raises
          /\ ttm_records # {}
          /\ EndRun("ttm", ttm_args, FailedSummary, Cardinality(opportunities), AllPhases,
                    FALSE)
          /\ UNCHANGED ttm
    /\ ttm_pc' = "idle"
    /\ ttm_args' = NoRow
    /\ opportunities' = {}
    /\ ttm_records' = {}
    /\ UNCHANGED <<baseVars, auxVars, serial, fin, prices, ratios, metrics, merges, price_loads,
                   ratVars, mmVars>>

\* ---- FinancialRatioETL.run

RatioExtract ==
    /\ rat_pc = "idle"
    /\ Scheduled
    /\ \E args \in RatioArgs :
         \/ /\ EndRun("ratio", args, FailedSummary, NULL, {"extract"}, FALSE)
            /\ UNCHANGED <<rat_pc, rat_args, rat_raw>>
         \/ LET raw == RatioExtractQuery(fin, ratios, args)
            IN  IF IsEmpty(Cardinality(raw))
                THEN /\ EndRun("ratio", args, EmptySummary, 0, {"extract"}, TRUE)
                     /\ UNCHANGED <<rat_pc, rat_args, rat_raw>>
                ELSE /\ rat_raw' = raw
                     /\ rat_args' = args
                     /\ rat_pc' = "extracted"
                     /\ UNCHANGED prev
    /\ UNCHANGED <<baseVars, auxVars, serial, whVars, ttmVars, rat_records, mmVars>>

\* transform: a record whose calculation raises is counted and skipped
RatioTransform ==
    /\ rat_pc = "extracted"
    /\ \E bad \in {{}} \cup {{r} : r \in rat_raw} :
         rat_records' = { RatioRecord(r) : r \in rat_raw \ bad }
    /\ rat_pc' = "transformed"
    /\ UNCHANGED <<baseVars, auxVars, serial, whVars, ttmVars, rat_args, rat_raw, mmVars, prev>>

RatioLoad ==
    /\ rat_pc = "transformed"
    /\ \/ /\ ratios' = ratios \cup rat_records
          /\ EndRun("ratio", rat_args,
                    CountedSummary(Cardinality(rat_raw), Cardinality(rat_records),
                                   Cardinality(rat_raw) - Cardinality(rat_records)),
                    Cardinality(rat_raw), AllPhases,
                    Cardinality(rat_records) = Cardinality(rat_raw))
       \/ /\ rat_records # {}
          /\ EndRun("ratio", rat_args, FailedSummary, Cardinality(rat_raw), AllPhases, FALSE)
          /\ UNCHANGED ratios
    /\ rat_pc' = "idle"
    /\ rat_args' = NoRow
    /\ rat_raw' = {}
    /\ rat_records' = {}
    /\ UNCHANGED <<baseVars, auxVars, serial, fin, ttm, prices, metrics, merges, price_loads,
                   ttmVars, mmVars>>

\* ---- MarketMetricsETL.run

MMExtract ==
    /\ mm_pc = "idle"
    /\ Scheduled
    /\ \E args \in MMArgs :
         \/ /\ EndRun("mm", args, FailedSummary, NULL, {"extract"}, FALSE)
            /\ UNCHANGED <<mm_pc, mm_args, mm_raw>>
         \/ \E raw \in MMExtractResults(prices, fin, ttm, metrics, args) :
              IF IsEmpty(Cardinality(raw))
              THEN /\ EndRun("mm", args, EmptySummary, 0, {"extract"}, TRUE)
                   /\ UNCHANGED <<mm_pc, mm_args, mm_raw>>
              ELSE /\ mm_raw' = raw
                   /\ mm_args' = args
                   /\ mm_pc' = "extracted"
                   /\ UNCHANGED prev
    /\ UNCHANGED <<baseVars, auxVars, serial, whVars, ttmVars, ratVars, mm_records>>

\* transform: a record whose calculation raises is counted and skipped
MMTransform ==
    /\ mm_pc = "extracted"
    /\ \E bad \in {{}} \cup {{x} : x \in mm_raw} :
         mm_records' = { MetricRecord(x) : x \in mm_raw \ bad }
    /\ mm_pc' = "transformed"
    /\ UNCHANGED <<baseVars, auxVars, serial, whVars, ttmVars, ratVars, mm_args, mm_raw, prev>>

MMLoad ==
    /\ mm_pc = "transformed"
    /\ \/ /\ metrics' = metrics \cup mm_records
          /\ EndRun("mm", mm_args,
                    CountedSummary(Cardinality(mm_raw), Cardinality(mm_records),
                                   Cardinality(mm_raw) - Cardinality(mm_records)),
                    Cardinality(mm_raw), AllPhases,
                    Cardinality(mm_records) = Cardinality(mm_raw))
       \/ /\ mm_records # {}
          /\ EndRun("mm", mm_args, FailedSummary, Cardinality(mm_raw), AllPhases, FALSE)
          /\ UNCHANGED metrics
    /\ mm_pc' = "idle"
    /\ mm_args' = NoRow
    /\ mm_raw' = {}
    /\ mm_records' = {}
    /\ UNCHANGED <<baseVars, auxVars, serial, fin, ttm, prices, ratios, merges, price_loads,
                   ttmVars, ratVars>>

\* ---- initial states

\* ------------------------------------------------ ratio and metric calculations
\* One transform() of the ratio engine or of the market-metrics engine over a list of
\* extracted records. Amounts are integers; a computed field is <<>> for None and
\* <<q>> for the quotient q, kept in hundredths.

None == <<>>
\* the marker of a division by zero, which Python raises as ZeroDivisionError
ZeroDivision == <<0, 0>>

RatioInputs ==
    {"REVENUE", "GROSS_PROFIT", "OPERATING_INCOME", "NET_INCOME", "TOTAL_EQUITY",
     "TOTAL_ASSETS", "CURRENT_LIABILITIES", "CURRENT_ASSETS", "TOTAL_DEBT",
     "SHARES_OUTSTANDING"}

MetricInputs ==
    {"CLOSE_PRICE", "TTM_SHARES_OUTSTANDING", "QUARTERLY_SHARES_OUTSTANDING",
     "TTM_TOTAL_DEBT", "TOTAL_DEBT", "TTM_CASH_AND_EQUIVALENTS", "CASH_AND_EQUIVALENTS",
     "QUARTERLY_EPS_DILUTED",
     "TTM_EPS_DILUTED", "BOOK_VALUE_PER_SHARE", "QUARTERLY_REVENUE_PER_SHARE",
     "TTM_REVENUE", "TTM_OPERATING_INCOME", "TTM_DIVIDENDS_PAID", "TTM_NET_INCOME"}

\* the values of an input column: NULL, a negative amount, zero, positive amounts
Amounts == {NULL, -4, 0, 4, 20}

\* record.get(key, 0) or 0
OrZero(v) == IF v = NULL THEN 0 ELSE v

\* a or b, for numbers
Or(a, b) == IF OrZero(a) # 0 THEN a ELSE OrZero(b)

Abs(x) == IF x < 0 THEN 0 - x ELSE x

Positive_NonZero(x) == x # 0
\* `if x > 0:`
Positive(x) == x > 0

Quotient_Unscaled(guard, n, d, scale) ==
    IF guard THEN (IF d = 0 THEN ZeroDivision ELSE <<(n * 100) \div d>>)
    ELSE None
\* `round(n / d * scale, 2) if guard else None`
Quotient(guard, n, d, scale) ==
    IF guard THEN (IF d = 0 THEN ZeroDivision ELSE <<(n * scale * 100) \div d>>)
    ELSE None

\* the body of the loop of FinancialRatioETL.transform for one record
RatioFields(r) ==
    LET revenue == OrZero(r["REVENUE"])
        total_equity == OrZero(r["TOTAL_EQUITY"])
        total_assets == OrZero(r["TOTAL_ASSETS"])
        current_liabilities == OrZero(r["CURRENT_LIABILITIES"])
        shares_outstanding == OrZero(r["SHARES_OUTSTANDING"])
        net_income == OrZero(r["NET_INCOME"])
        total_debt == OrZero(r["TOTAL_DEBT"])
    IN  [gross_margin |-> Quotient(Positive(revenue), OrZero(r["GROSS_PROFIT"]), revenue, 100),
         operating_margin |->
             Quotient(Positive(revenue), OrZero(r["OPERATING_INCOME"]), revenue, 100),
         profit_margin |-> Quotient(Positive(revenue), net_income, revenue, 100),
         roe |-> Quotient(Positive(total_equity), net_income, total_equity, 100),
         roa |-> Quotient(Positive(total_assets), net_income, total_assets, 100),
         current_ratio |-> Quotient(Positive(current_liabilities),
                                    OrZero(r["CURRENT_ASSETS"]), current_liabilities, 1),
         quick_ratio |-> Quotient(Positive(current_liabilities),
                                  OrZero(r["CURRENT_ASSETS"]) - 0, current_liabilities, 1),
         debt_to_equity |-> Quotient(Positive(total_equity), total_debt, total_equity, 1),
         debt_to_assets |-> Quotient(Positive(total_assets), total_debt, total_assets, 1),
         asset_turnover |-> Quotient(Positive(total_assets) /\ Positive(revenue),
                                     revenue, total_assets, 1),
         book_value_per_share |->
             Quotient(Positive(shares_outstanding) /\ Positive(total_equity),
                      total_equity, shares_outstanding, 1)]

\* the body of the loop of MarketMetricsETL.transform for one record
MetricFields(r) ==
    LET close_price == OrZero(r["CLOSE_PRICE"])
        shares_outstanding ==
            Or(r["TTM_SHARES_OUTSTANDING"], r["QUARTERLY_SHARES_OUTSTANDING"])
        priced == Positive(close_price) /\ Positive(shares_outstanding)
        market_cap == close_price * shares_outstanding
        enterprise_value == IF priced
                            THEN <<market_cap
                                   + Or(r["TTM_TOTAL_DEBT"], r["TOTAL_DEBT"])
                                   - Or(r["TTM_CASH_AND_EQUIVALENTS"],
                                        r["CASH_AND_EQUIVALENTS"])>>
                            ELSE None
        \* `metric_record.get('enterprise_value') and metric_record['enterprise_value'] > 0`
        has_ev == enterprise_value # None /\ enterprise_value # <<0>>
                    /\ Positive(enterprise_value[1])
        ev == IF enterprise_value = None THEN 0 ELSE enterprise_value[1]
        quarterly_eps == OrZero(r["QUARTERLY_EPS_DILUTED"])
        ttm_eps == OrZero(r["TTM_EPS_DILUTED"])
        book_value_per_share == OrZero(r["BOOK_VALUE_PER_SHARE"])
        quarterly_revenue_per_share == OrZero(r["QUARTERLY_REVENUE_PER_SHARE"])
        ttm_revenue == OrZero(r["TTM_REVENUE"])
        ttm_operating_income == OrZero(r["TTM_OPERATING_INCOME"])
        ttm_dividends == OrZero(r["TTM_DIVIDENDS_PAID"])
        ttm_net_income == OrZero(r["TTM_NET_INCOME"])
        ev_to_ebitda == Quotient(has_ev /\ Positive(ttm_operating_income),
                                 ev, ttm_operating_income, 1)
    IN  [market_cap |-> IF priced THEN <<market_cap>> ELSE None,
         enterprise_value |-> enterprise_value,
         pe_ratio |-> Quotient(Positive(quarterly_eps), close_price, quarterly_eps, 1),
         pe_ratio_ttm |-> Quotient(Positive(ttm_eps), close_price, ttm_eps, 1),
         pb_ratio |-> Quotient(Positive(book_value_per_share),
                               close_price, book_value_per_share, 1),
         ps_ratio |-> Quotient(Positive(quarterly_revenue_per_share),
                               close_price, quarterly_revenue_per_share, 1),
         \* close_price / (ttm_revenue / shares_outstanding), as one exact quotient
         ps_ratio_ttm |->
             IF Positive(ttm_revenue) /\ Positive(shares_outstanding)
             THEN (IF shares_outstanding = 0 THEN ZeroDivision
                   ELSE Quotient(TRUE, close_price * shares_outstanding, ttm_revenue, 1))
             ELSE None,
         ev_to_revenue |->
             Quotient(has_ev /\ Positive(quarterly_revenue_per_share)
                             /\ Positive(shares_outstanding),
                      ev, quarterly_revenue_per_share * shares_outstanding, 1),
         ev_to_revenue_ttm |-> Quotient(has_ev /\ Positive(ttm_revenue), ev, ttm_revenue, 1),
         ev_to_ebitda |-> ev_to_ebitda,
         ev_to_ebit |-> ev_to_ebitda,
         \* (abs(ttm_dividends) / shares_outstanding) / close_price * 100
         dividend_yield |->
             Quotient(Positive(close_price) /\ ttm_dividends < 0
                                            /\ Positive(shares_outstanding),
                      Abs(ttm_dividends), shares_outstanding * close_price, 100),
         payout_ratio |-> Quotient(Positive(ttm_net_income) /\ ttm_dividends < 0,
                                   Abs(ttm_dividends), ttm_net_income, 100),
         peg_ratio |-> None]

\* what one record of the engine's extract can hold: every column a plain positive
\* amount (dividends paid a negative cash flow) except two, which take any amount
Plain(f) == IF f = "TTM_DIVIDENDS_PAID" THEN -4 ELSE 4

Columns(engine) == IF engine = "ratio" THEN RatioInputs ELSE MetricInputs

ExtractedValues(engine) ==
    { [f \in Columns(engine) |-> IF f = f1 THEN v1 ELSE IF f = f2 THEN v2 ELSE Plain(f)] :
        f1 \in Columns(engine), f2 \in Columns(engine), v1 \in Amounts, v2 \in Amounts }

\* the records the tests of the engines compute on: revenue 1,000,000, net income
\* 100,000 and equity 500,000; a close of 100 on TTM diluted EPS of 5
Example(engine) ==
    IF engine = "ratio"
    THEN [f \in RatioInputs |->
            CASE f = "REVENUE" -> 1000000 [] f = "NET_INCOME" -> 100000
              [] f = "TOTAL_EQUITY" -> 500000 [] OTHER -> Plain(f)]
    ELSE [f \in MetricInputs |->
            CASE f = "CLOSE_PRICE" -> 100 [] f = "TTM_EPS_DILUTED" -> 5
              [] OTHER -> Plain(f)]

\* a record of the input list: `malformed` when a lookup or an arithmetic step on it
\* raises for a reason other than its amounts (a missing key, a non-numeric value)
CalcRecord(k, bad, vals) == [key |-> k, malformed |-> bad, v |-> vals]

\* the short lists of records a batch is drawn from
BatchValues(engine) ==
    { [f \in Columns(engine) |-> IF f \in zs THEN 0 ELSE Plain(f)] :
        zs \in {{}, Columns(engine)} }

Batches(engine) ==
    UNION { { [i \in 1..n |-> CalcRecord(i, b[i], vs[i])] :
                b \in [1..n -> BOOLEAN], vs \in [1..n -> BatchValues(engine)] } :
            n \in 0..MaxCalcRecs }

\* the columns of FACT_FINANCIAL_RATIOS the query of MarketMetricsETL.extract selects:
\* fr.revenue_per_share as quarterly_revenue_per_share, fr.book_value_per_share
RatioColumnsRead ==
    [QUARTERLY_REVENUE_PER_SHARE |-> "revenue_per_share",
     BOOK_VALUE_PER_SHARE |-> "book_value_per_share"]

\* bulk_insert of a ratio record and the SELECT of a column of its row: a column the
\* record has no key for is NULL; amounts are in hundredths
StoredRatio(fields, column) ==
    IF column \in DOMAIN fields /\ fields[column] # None THEN fields[column][1] ELSE NULL

\* the record the market-metrics extract returns for a price row joined to the ratio
\* row made from `fields`, its other columns plain amounts, all in hundredths
JoinedToRatio(fields) ==
    [f \in MetricInputs |->
       IF f \in DOMAIN RatioColumnsRead THEN StoredRatio(fields, RatioColumnsRead[f])
       ELSE 100 * Plain(f)]

CalcFields(engine, vals) ==
    IF engine = "ratio" THEN RatioFields(vals) ELSE MetricFields(vals)

CalcRaises_Never(rec, fields) == FALSE
\* the try block raises
CalcRaises(rec, fields) ==
    rec.malformed \/ \E f \in DOMAIN fields : fields[f] = ZeroDivision

NoMetadata == [records_transformed |-> NULL, calculation_errors |-> NULL]

\* one iteration of `for record in raw_data:` with its try/except
CalcRecordStep ==
    /\ calc_pc = "loop"
    /\ calc_i < Len(calc_in)
    /\ LET record == calc_in[calc_i + 1]
           fields == CalcFields(calc_engine, record.v)
       IN  IF CalcRaises(record, fields)
           THEN /\ calculation_errors' = calculation_errors + 1
                /\ UNCHANGED calc_out
           ELSE /\ calc_out' = Append(calc_out, [key |-> record.key, fields |-> fields])
                /\ UNCHANGED calculation_errors
    /\ calc_i' = calc_i + 1
    /\ UNCHANGED <<calc_pc, calc_engine, calc_in, calc_metadata>>
    /\ UNCHANGED <<baseVars, serial, whVars, ttmVars, ratVars, mmVars, prev, rerunVars,
                   orchVars, srcVars>>

\* the end of transform(): metadata stored, the list returned
CalcReturn ==
    /\ calc_pc = "loop"
    /\ calc_i = Len(calc_in)
    /\ calc_metadata' = [records_transformed |-> Len(calc_out),
                         calculation_errors |-> calculation_errors]
    /\ calc_pc' = "returned"
    /\ UNCHANGED <<calc_engine, calc_in, calc_i, calc_out, calculation_errors>>
    /\ UNCHANGED <<baseVars, serial, whVars, ttmVars, ratVars, mmVars, prev, rerunVars,
                   orchVars, srcVars>>


\* ------------------------------------------------------------ orchestrator
\* scripts/run_daily_pipeline.py: PipelineOrchestrator.run_daily_update and the
\* pipelines it runs. One symbol is followed through the warehouse.

Independent == {"company", "price", "financial"}
Dependent == {"ttm_calculation", "ratio", "market_metrics"}

PipelineOrder_RatioFirst ==
    <<"company", "price", "financial", "ratio", "ttm_calculation", "market_metrics">>
\* the order in which run_daily_update appends to pipelines
PipelineOrder ==
    <<"company", "price", "financial", "ttm_calculation", "ratio", "market_metrics">>

\* the skip flags: TTM is appended only if the financial pipeline is
Selected(a, n) ==
    IF n = "ttm_calculation"
    THEN "financial" \notin a.skip /\ "ttm_calculation" \notin a.skip
    ELSE n \notin a.skip

\* the selected pipelines of group 1, in the order of `pipelines`
IndependentETLs(a) ==
    SelectSeq(PipelineOrder, LAMBDA n : Selected(a, n) /\ n \in Independent)

\* the selected pipelines of group 2, in the order of `pipelines`
DependentETLs(a) ==
    SelectSeq(PipelineOrder, LAMBDA n : Selected(a, n) /\ n \notin Independent)

\* success of run_company_etl, run_price_etl, run_financial_etl: a dry run returns
\* True, a run returns status in [SUCCESS, PARTIAL]
IndependentSuccess(status) == status \in {"dry_run", "success", "partial"}

\* success of the runners of the derived engines: result.get('status') == 'success'
DependentSuccess(status) == status \in {"dry_run", "success"}

\* the exit code of run_daily_update
ExitCode(all, any) == IF all THEN 0 ELSE IF any THEN 1 ELSE 2

\* ---- ANALYTICS.DIM_COMPANY

\* the company is on file under its first name
KnownCompany ==
    [company_key |-> 1, symbol |-> 1, company_name |-> "Acme", is_current |-> TRUE]

\* SELECT ... FROM ANALYTICS.DIM_COMPANY WHERE is_current = TRUE
CurrentCompanies(dim) == { c \in dim : c.is_current }

\* UPDATE ANALYTICS.DIM_COMPANY SET is_current = FALSE WHERE symbol = s AND is_current
CloseCurrent(dim, s) ==
    { IF c.symbol = s /\ c.is_current THEN [c EXCEPT !.is_current = FALSE] ELSE c :
        c \in dim }

\* bulk_insert('ANALYTICS.DIM_COMPANY', [dim_record]) with is_current True; the table
\* assigns the next company_key
InsertCurrent(dim, r) ==
    dim \cup { [company_key |-> Cardinality(dim) + 1, symbol |-> r.symbol,
                company_name |-> r.company_name, is_current |-> TRUE] }

\* CompanyETL.transform: a symbol not among the existing companies is new and
\* changed; a known one is changed iff its name differs
StagingRecord(profile, existing) ==
    [symbol |-> profile.symbol, company_name |-> profile.company_name,
     is_new_company |-> ~\E c \in existing : c.symbol = profile.symbol,
     has_changes |-> \A c \in existing :
                       c.symbol = profile.symbol => c.company_name # profile.company_name]

\* ---- the feeds of the API

\* historical prices of the symbol: one day
PriceFeed == { [symbol |-> 1, date |-> 13, close |-> 63] }

\* income statements of the symbol: one quarter
StatementFeed ==
    { [symbol |-> 1, fiscal |-> 9, ptype |-> "Q3", accepted |-> <<13, 0>>,
       revenue |-> 109, shares |-> 19] }

\* conn.merge('STAGING.STG_HISTORICAL_PRICES', data, ['symbol', 'price_date']): the
\* rows with the keys of data are replaced
MergeStagedPrices(table, data) ==
    { x \in table : \A d \in data : <<d.symbol, d.date>> # <<x.symbol, x.date>> }
      \cup data

\* conn.merge('STAGING.STG_INCOME_STATEMENT', data, ['symbol', 'fiscal_date', 'period'])
MergeStagedStatements(table, data) ==
    { x \in table : \A d \in data : <<d.symbol, d.fiscal, d.ptype>>
                                       # <<x.symbol, x.fiscal, x.ptype>> }
      \cup data

\* the USING subquery of HistoricalPriceETL.update_fact_table: staged prices joined
\* to the current row of their company
PriceSource(stg, dim) ==
    { [company |-> p[2].company_key, date |-> p[1].date, close |-> p[1].close] :
        p \in { q \in stg \X CurrentCompanies(dim) : q[1].symbol = q[2].symbol } }

\* MERGE INTO ANALYTICS.FACT_DAILY_PRICES ... ON company_key, date_key
MergePrices(table, src) ==
    { x \in table : \A s \in src : <<s.company, s.date>> # <<x.company, x.date>> }
      \cup src

\* the USING subquery of FinancialStatementETL.update_fact_table: the current rows of
\* DIM_COMPANY joined to the staged income statements
FinancialSource(stg, dim) ==
    { [company |-> p[2].company_key, fiscal |-> p[1].fiscal, ptype |-> p[1].ptype,
       accepted |-> p[1].accepted, revenue |-> p[1].revenue, shares |-> p[1].shares] :
        p \in { q \in stg \X CurrentCompanies(dim) : q[1].symbol = q[2].symbol } }

\* MERGE INTO ANALYTICS.FACT_FINANCIALS ... ON company_key, fiscal_date_key, period_type
MergeFinancialSource(table, src) ==
    { x \in table : \A s \in src : FinancialKey(s) # FinancialKey(x) } \cup src


orchOther == <<baseVars, serial, ttmVars, ratVars, mmVars, prev, calcVars, rerunVars,
               srcVars, ttm, ratios, metrics, merges, price_loads>>

\* run_daily_update up to the submission of the independent pipelines
OrchStart ==
    /\ orch_pc = "start"
    /\ IF cli.symbols = <<>>
       THEN /\ exit_code' = 2
            /\ orch_pc' = "returned"
            /\ UNCHANGED <<th, dependent_etls>>
       ELSE /\ dependent_etls' = DependentETLs(cli)
            /\ th' = [n \in (Independent \cup Dependent) |->
                        IF \E i \in DOMAIN IndependentETLs(cli) : IndependentETLs(cli)[i] = n
                        THEN "submitted" ELSE "none"]
            /\ orch_pc' = IF IndependentETLs(cli) # <<>> THEN "group1" ELSE "group2"
            /\ UNCHANGED exit_code
    /\ UNCHANGED <<cli, dry_run, etl, existing_companies, co_i, co_closed, results,
                   all_success, any_success, dim_company, stg_prices, stg_income,
                   fin, prices>>
    /\ UNCHANGED orchOther

\* a runner that returns: self.results[name] is set and the future is done
Returned(n, status) ==
    /\ results' = [results EXCEPT ![n] = status]
    /\ th' = [th EXCEPT ![n] = "done"]

\* run_company_etl: dry run, or CompanyETL.extract
CompanyExtract ==
    /\ orch_pc = "group1" /\ th["company"] = "submitted"
    /\ IF dry_run
       THEN /\ Returned("company", "dry_run")
            /\ UNCHANGED <<etl, existing_companies>>
       ELSE /\ \/ cli.skip_analytics /\ UNCHANGED existing_companies
               \/ ~cli.skip_analytics
                    /\ existing_companies' \in {CurrentCompanies(dim_company), {}}
            /\ \E name \in {"Acme", "Acme Corp"}, path \in {"batch", "single"},
                  answer \in {"profile", "error"} :
                 LET \* batch_get_company_profiles keeps one profile per symbol
                     syms == IF path = "batch" THEN <<Head(cli.symbols)>>
                                               ELSE cli.symbols
                     profiles == IF answer = "profile"
                                 THEN [i \in DOMAIN syms |->
                                         [symbol |-> syms[i], company_name |-> name]]
                                 ELSE <<>>
                 IN  etl' = [etl EXCEPT !["company"].data = profiles,
                                        !["company"].errors =
                                            path = "single" /\ answer = "error"]
            /\ th' = [th EXCEPT !["company"] = "extracted"]
            /\ UNCHANGED results
    /\ UNCHANGED <<orch_pc, cli, dry_run, co_i, co_closed, dependent_etls, all_success,
                   any_success, exit_code, dim_company, stg_prices, stg_income, fin,
                   prices>>
    /\ UNCHANGED orchOther

\* CompanyETL.transform and the raw and staging inserts of CompanyETL.load
CompanyLoad ==
    /\ orch_pc = "group1" /\ th["company"] = "extracted"
    /\ LET staging == [i \in DOMAIN etl["company"].data |->
                         StagingRecord(etl["company"].data[i], existing_companies)]
       IN  \/ /\ etl' = [etl EXCEPT !["company"].data = staging,
                                    !["company"].records_loaded = 2 * Len(staging)]
              /\ th' = [th EXCEPT !["company"] = "analytics"]
              /\ co_i' = IF cli.skip_analytics THEN Len(staging) + 1 ELSE 1
              /\ UNCHANGED results
           \/ /\ staging # <<>>
              /\ etl' = [etl EXCEPT !["company"].data = staging,
                                    !["company"].errors = TRUE]
              /\ Returned("company", "failed")
              /\ UNCHANGED co_i
    /\ co_closed' = FALSE
    /\ UNCHANGED <<orch_pc, cli, dry_run, existing_companies, dependent_etls,
                   all_success, any_success, exit_code, dim_company, stg_prices,
                   stg_income, fin, prices>>
    /\ UNCHANGED orchOther

\* the record the loop of _update_analytics_layer is at
CompanyRecord == etl["company"].data[co_i]

InAnalytics ==
    /\ orch_pc = "group1" /\ th["company"] = "analytics"
    /\ co_i <= Len(etl["company"].data)

\* the exception of a statement leaves _update_analytics_layer and is recorded by load
AnalyticsFailed ==
    /\ etl' = [etl EXCEPT !["company"].errors = TRUE]
    /\ co_i' = Len(etl["company"].data) + 1
    /\ co_closed' = FALSE
    /\ UNCHANGED dim_company

companyFrame == <<orch_pc, cli, dry_run, existing_companies, dependent_etls, all_success,
                  any_success, exit_code, stg_prices, stg_income, fin, prices, th,
                  results>>

\* _update_analytics_layer: a record without changes is passed over
CompanyUnchanged ==
    /\ InAnalytics
    /\ ~CompanyRecord.has_changes
    /\ co_i' = co_i + 1
    /\ UNCHANGED <<etl, co_closed, dim_company>>
    /\ UNCHANGED companyFrame
    /\ UNCHANGED orchOther

\* _update_analytics_layer: the UPDATE that closes the current row of a known company
CompanyClose ==
    /\ InAnalytics
    /\ CompanyRecord.has_changes /\ ~CompanyRecord.is_new_company /\ ~co_closed
    /\ \/ /\ dim_company' = CloseCurrent(dim_company, CompanyRecord.symbol)
          /\ co_closed' = TRUE
          /\ UNCHANGED <<etl, co_i>>
       \/ AnalyticsFailed
    /\ UNCHANGED companyFrame
    /\ UNCHANGED orchOther

\* _update_analytics_layer: the INSERT of the new current row
CompanyInsert ==
    /\ InAnalytics
    /\ CompanyRecord.has_changes /\ (CompanyRecord.is_new_company \/ co_closed)
    /\ \/ /\ dim_company' = InsertCurrent(dim_company, CompanyRecord)
          /\ co_i' = co_i + 1
          /\ co_closed' = FALSE
          /\ etl' = [etl EXCEPT !["company"].records_loaded = @ + 1]
       \/ AnalyticsFailed
    /\ UNCHANGED companyFrame
    /\ UNCHANGED orchOther

\* run_company_etl after load(): the status is set and the result is published
CompanyReturn ==
    /\ orch_pc = "group1" /\ th["company"] = "analytics"
    /\ co_i > Len(etl["company"].data)
    /\ Returned("company", IF etl["company"].errors THEN "partial" ELSE "success")
    /\ UNCHANGED <<orch_pc, cli, dry_run, etl, existing_companies, co_i, co_closed,
                   dependent_etls, all_success, any_success, exit_code, dim_company,
                   stg_prices, stg_income, fin, prices>>
    /\ UNCHANGED orchOther

priceFrame == <<orch_pc, cli, dry_run, existing_companies, co_i, co_closed,
                dependent_etls, all_success, any_success, exit_code, dim_company,
                stg_income, fin>>

\* run_price_etl: dry run, or HistoricalPriceETL.extract, which records the exception
\* of a request in job_errors and goes on
PriceExtract ==
    /\ orch_pc = "group1" /\ th["price"] = "submitted"
    /\ IF dry_run
       THEN /\ Returned("price", "dry_run")
            /\ UNCHANGED etl
       ELSE /\ \/ etl' = [etl EXCEPT !["price"].data = PriceFeed]
               \/ etl' = [etl EXCEPT !["price"].data = {}]
               \/ etl' = [etl EXCEPT !["price"].data = {}, !["price"].job_errors = TRUE]
            /\ th' = [th EXCEPT !["price"] = "extracted"]
            /\ UNCHANGED results
    /\ UNCHANGED <<stg_prices, prices>>
    /\ UNCHANGED priceFrame
    /\ UNCHANGED orchOther

\* HistoricalPriceETL.transform and load: the raw insert and the staging merge; the
\* connection may fail, which the runner reports
PriceLoad ==
    /\ orch_pc = "group1" /\ th["price"] = "extracted"
    /\ LET data == etl["price"].data
       IN  \/ /\ stg_prices' = MergeStagedPrices(stg_prices, data)
              /\ etl' = [etl EXCEPT !["price"].records_loaded = 2 * Cardinality(data)]
              /\ th' = [th EXCEPT !["price"] = "loaded"]
              /\ UNCHANGED results
           \/ /\ data # {}
              /\ etl' = [etl EXCEPT !["price"].job_errors = TRUE,
                                    !["price"].records_loaded = Cardinality(data)]
              /\ th' = [th EXCEPT !["price"] = "loaded"]
              /\ UNCHANGED <<stg_prices, results>>
           \/ /\ Returned("price", "failed")
              /\ UNCHANGED <<stg_prices, etl>>
    /\ UNCHANGED prices
    /\ UNCHANGED priceFrame
    /\ UNCHANGED orchOther

\* run_price_etl after load(): update_fact_table if anything was loaded, then the
\* status is set from result.errors and the result is published
PriceFact ==
    /\ orch_pc = "group1" /\ th["price"] = "loaded"
    /\ IF ~cli.skip_analytics /\ etl["price"].records_loaded > 0
       THEN \/ /\ prices' = MergePrices(prices, PriceSource(stg_prices, dim_company))
               /\ UNCHANGED etl
            \/ /\ etl' = [etl EXCEPT !["price"].job_errors = TRUE]
               /\ UNCHANGED prices
       ELSE UNCHANGED <<prices, etl>>
    /\ Returned("price", IF etl["price"].errors THEN "partial" ELSE "success")
    /\ UNCHANGED stg_prices
    /\ UNCHANGED priceFrame
    /\ UNCHANGED orchOther

financialFrame == <<orch_pc, cli, dry_run, existing_companies, co_i, co_closed,
                    dependent_etls, all_success, any_success, exit_code, dim_company,
                    stg_prices, prices>>

\* run_financial_etl: dry run, or FinancialStatementETL.extract
FinancialExtract ==
    /\ orch_pc = "group1" /\ th["financial"] = "submitted"
    /\ IF dry_run
       THEN /\ Returned("financial", "dry_run")
            /\ UNCHANGED etl
       ELSE /\ \/ etl' = [etl EXCEPT !["financial"].data = StatementFeed]
               \/ etl' = [etl EXCEPT !["financial"].data = {}]
               \/ etl' = [etl EXCEPT !["financial"].data = {},
                                     !["financial"].job_errors = TRUE]
            /\ th' = [th EXCEPT !["financial"] = "extracted"]
            /\ UNCHANGED results
    /\ UNCHANGED <<stg_income, fin>>
    /\ UNCHANGED financialFrame
    /\ UNCHANGED orchOther

\* FinancialStatementETL.transform and load
FinancialLoad ==
    /\ orch_pc = "group1" /\ th["financial"] = "extracted"
    /\ LET data == etl["financial"].data
       IN  \/ /\ stg_income' = MergeStagedStatements(stg_income, data)
              /\ etl' = [etl EXCEPT !["financial"].records_loaded = 2 * Cardinality(data)]
              /\ th' = [th EXCEPT !["financial"] = "loaded"]
              /\ UNCHANGED results
           \/ /\ data # {}
              /\ etl' = [etl EXCEPT !["financial"].job_errors = TRUE,
                                    !["financial"].records_loaded = Cardinality(data)]
              /\ th' = [th EXCEPT !["financial"] = "loaded"]
              /\ UNCHANGED <<stg_income, results>>
           \/ /\ Returned("financial", "failed")
              /\ UNCHANGED <<stg_income, etl>>
    /\ UNCHANGED fin
    /\ UNCHANGED financialFrame
    /\ UNCHANGED orchOther

\* run_financial_etl after load(): update_fact_table, status, result
FinancialFact ==
    /\ orch_pc = "group1" /\ th["financial"] = "loaded"
    /\ IF ~cli.skip_analytics /\ etl["financial"].records_loaded > 0
       THEN \/ /\ fin' = MergeFinancialSource(fin,
                                              FinancialSource(stg_income, dim_company))
               /\ UNCHANGED etl
            \/ /\ etl' = [etl EXCEPT !["financial"].job_errors = TRUE]
               /\ UNCHANGED fin
       ELSE UNCHANGED <<fin, etl>>
    /\ Returned("financial", IF etl["financial"].errors THEN "partial" ELSE "success")
    /\ UNCHANGED stg_income
    /\ UNCHANGED financialFrame
    /\ UNCHANGED orchOther

orchFrame == <<cli, dry_run, etl, existing_companies, co_i, co_closed, dim_company,
               stg_prices, stg_income, fin, prices>>

\* the as_completed loop takes a finished future; after the last one the executor
\* is left
Collect ==
    /\ orch_pc = "group1"
    /\ \E n \in Independent :
         /\ th[n] = "done"
         /\ th' = [th EXCEPT ![n] = "collected"]
         /\ IF IndependentSuccess(results[n])
            THEN any_success' = TRUE /\ UNCHANGED all_success
            ELSE all_success' = FALSE /\ UNCHANGED any_success
         /\ orch_pc' = IF \A m \in Independent \ {n} : th[m] \in {"none", "collected"}
                       THEN "group2" ELSE "group1"
    /\ UNCHANGED <<dependent_etls, results, exit_code>>
    /\ UNCHANGED orchFrame
    /\ UNCHANGED orchOther

\* the loop over dependent_etls calls the next runner
DependentCall ==
    /\ orch_pc = "group2"
    /\ dependent_etls # <<>>
    /\ th[Head(dependent_etls)] = "none"
    /\ th' = [th EXCEPT ![Head(dependent_etls)] = "running"]
    /\ UNCHANGED <<orch_pc, dependent_etls, results, all_success, any_success, exit_code>>
    /\ UNCHANGED orchFrame
    /\ UNCHANGED orchOther

\* the runner of a derived engine returns: etl.run() answered 'success' or 'failed'
DependentReturn ==
    /\ orch_pc = "group2"
    /\ dependent_etls # <<>>
    /\ th[Head(dependent_etls)] = "running"
    /\ \E status \in IF dry_run THEN {"dry_run"} ELSE {"success", "failed"} :
         /\ results' = [results EXCEPT ![Head(dependent_etls)] = status]
         /\ IF DependentSuccess(status)
            THEN any_success' = TRUE /\ UNCHANGED all_success
            ELSE all_success' = FALSE /\ UNCHANGED any_success
    /\ th' = [th EXCEPT ![Head(dependent_etls)] = "returned"]
    /\ dependent_etls' = Tail(dependent_etls)
    /\ UNCHANGED <<orch_pc, exit_code>>
    /\ UNCHANGED orchFrame
    /\ UNCHANGED orchOther

\* the summary and the exit code
OrchReturn ==
    /\ orch_pc = "group2"
    /\ dependent_etls = <<>>
    /\ exit_code' = ExitCode(all_success, any_success)
    /\ orch_pc' = "returned"
    /\ UNCHANGED <<th, dependent_etls, results, all_success, any_success>>
    /\ UNCHANGED orchFrame
    /\ UNCHANGED orchOther

\* ------------------------------------------- run() of the source pipelines
\* HistoricalPriceETL.run and FinancialStatementETL.run, which override BaseETL.run
\* with the same body.

MaxSymbols == 2

\* `PARTIAL if records_loaded > 0 else FAILED` when job_errors is not empty
SourceStatus(job_errors, records_loaded) ==
    IF job_errors > 0 THEN (IF records_loaded > 0 THEN "partial" ELSE "failed")
    ELSE "success"

srcOther == <<baseVars, serial, whVars, ttmVars, ratVars, mmVars, prev, calcVars,
              rerunVars, orchVars>>

\* one iteration of the loop of extract(): the request answers with a record, with
\* nothing, or raises, which is recorded in job_errors
SourceExtractSymbol ==
    /\ src_pc = "extract"
    /\ src_i < src_cfg.symbols
    /\ src_i' = src_i + 1
    /\ \/ src_raw' = src_raw + 1 /\ UNCHANGED src_job_errors
       \/ UNCHANGED <<src_raw, src_job_errors>>
       \/ src_job_errors' = src_job_errors + 1 /\ UNCHANGED src_raw
    /\ UNCHANGED <<src_pc, src_engine, src_cfg, src_result, src_saves, src_save_raised,
                   src_phase_raised>>
    /\ UNCHANGED srcOther

\* extract() returns; without data run() returns SUCCESS at once
SourceExtracted ==
    /\ src_pc = "extract"
    /\ src_i = src_cfg.symbols
    /\ IF src_raw = 0
       THEN /\ src_result' = [src_result EXCEPT !.status = "success", !.end_time = TRUE]
            /\ src_pc' = "returned"
       ELSE /\ src_result' = [src_result EXCEPT !.records_extracted = src_raw]
            /\ src_pc' = "transform"
    /\ UNCHANGED <<src_engine, src_cfg, src_i, src_raw, src_job_errors, src_saves,
                   src_save_raised, src_phase_raised>>
    /\ UNCHANGED srcOther

\* transform() and load(): each records its failures in job_errors; only the
\* connection of load() raises
SourceTransformLoad ==
    /\ src_pc = "transform"
    /\ \E transformed \in {0, src_raw} :
         LET transform_errors == IF transformed = 0 THEN 1 ELSE 0
         IN  \/ \E loaded \in {transformed + transformed, transformed} :
                  /\ src_result' = [src_result EXCEPT !.records_transformed = transformed,
                                                      !.records_loaded = loaded]
                  /\ src_job_errors' =
                       src_job_errors + transform_errors
                         + (IF loaded < transformed + transformed THEN 1 ELSE 0)
                  /\ src_pc' = "fact"
                  /\ UNCHANGED src_phase_raised
             \/ /\ src_result' = [src_result EXCEPT !.records_transformed = transformed]
                /\ src_job_errors' = src_job_errors + transform_errors
                /\ src_pc' = "except"
                /\ src_phase_raised' = TRUE
    /\ UNCHANGED <<src_engine, src_cfg, src_i, src_raw, src_saves, src_save_raised>>
    /\ UNCHANGED srcOther

\* update_fact_table if asked for and anything was loaded, then the status
SourceFact ==
    /\ src_pc = "fact"
    /\ \E failed \in IF src_cfg.update_analytics /\ src_result.records_loaded > 0
                     THEN BOOLEAN ELSE {FALSE} :
         LET job_errors == src_job_errors + (IF failed THEN 1 ELSE 0)
         IN  /\ src_job_errors' = job_errors
             /\ src_result' =
                  [src_result EXCEPT
                     !.status = SourceStatus(job_errors, src_result.records_loaded),
                     !.errors = job_errors,
                     !.end_time = TRUE]
    /\ src_pc' = "save"
    /\ UNCHANGED <<src_engine, src_cfg, src_i, src_raw, src_saves, src_save_raised,
                   src_phase_raised>>
    /\ UNCHANGED srcOther

\* `if self.monitor: self.monitor.save_job_result(self.result)` inside the try block
SourceSave ==
    /\ src_pc = "save"
    /\ \/ /\ ~src_cfg.monitor
          /\ src_pc' = "returned"
          /\ UNCHANGED <<src_saves, src_save_raised>>
       \/ /\ src_cfg.monitor
          /\ src_saves' = src_saves + 1
          /\ src_pc' = "returned"
          /\ UNCHANGED src_save_raised
       \/ /\ src_cfg.monitor
          /\ src_save_raised' = TRUE
          /\ src_pc' = "except"
          /\ UNCHANGED src_saves
    /\ UNCHANGED <<src_engine, src_cfg, src_i, src_raw, src_job_errors, src_result,
                   src_phase_raised>>
    /\ UNCHANGED srcOther

\* the except clause of run(): FAILED, errors = [str(e)], and the result is saved
\* outside any try
SourceExcept ==
    /\ src_pc = "except"
    /\ src_result' = [src_result EXCEPT !.status = "failed", !.end_time = TRUE,
                                        !.errors = 1]
    /\ \/ /\ ~src_cfg.monitor
          /\ src_pc' = "returned"
          /\ UNCHANGED src_saves
       \/ /\ src_cfg.monitor
          /\ src_saves' = src_saves + 1
          /\ src_pc' = "returned"
       \/ /\ src_cfg.monitor
          /\ src_pc' = "raised"
          /\ UNCHANGED src_saves
    /\ UNCHANGED <<src_engine, src_cfg, src_i, src_raw, src_job_errors, src_save_raised,
                   src_phase_raised>>
    /\ UNCHANGED srcOther

\* ---------------------------------------------------------- specifications

\* four quarters of company 1 are on file, each accepted a month after its period
InitialFilings ==
    { [company |-> 1, fiscal |-> f, ptype |-> QuarterOf(f), accepted |-> <<f + 1, 0>>,
       revenue |-> 100 + f, shares |-> 10 + f] : f \in FiscalDates \ {12} }

\* three quarters are on file and two more filings are accepted on one day, hours apart
SameDayFilings ==
    { r \in InitialFilings : r.fiscal < 9 }
      \cup { r \in Filings : /\ ValidFiling(r) /\ r.company = 1
                              /\ \/ r.fiscal = 9 /\ r.accepted = <<13, 0>>
                                 \/ r.fiscal = 12 /\ r.ptype = "Q4" /\ r.accepted = <<13, 1>> }

BaseOff ==
    /\ max_retries = 1 /\ batch_size = 1 /\ monitor = FALSE /\ hooks = FALSE
    /\ pc = "off" /\ attempt = 0 /\ result = NewResult /\ raw_data = <<>>
    /\ transformed_data = <<>> /\ layer = 0 /\ offset = 0 /\ total_loaded = 0
    /\ exc = NoExc /\ current_job_id = NoJob /\ saved = {} /\ dq_issues = {}
    /\ hook_failed = FALSE /\ extract_calls = 0 /\ extract_returned = <<>>
    /\ transform_calls = <<>> /\ transform_returned = FALSE /\ load_calls = <<>>
    /\ load_invoked = FALSE /\ tries = 0 /\ exhausted = FALSE

EnginesAt(p_ttm, p_rat, p_mm) ==
    /\ ttm_pc = p_ttm /\ ttm_args = NoRow /\ opportunities = {} /\ ttm_records = {}
    /\ rat_pc = p_rat /\ rat_args = NoRow /\ rat_raw = {} /\ rat_records = {}
    /\ mm_pc = p_mm /\ mm_args = NoRow /\ mm_raw = {} /\ mm_records = {}
    /\ prev = NoRun

EmptyTables ==
    /\ ttm = {} /\ prices = {} /\ ratios = {} /\ metrics = {}
    /\ merges = 0 /\ price_loads = 0

WarehouseOff ==
    /\ fin = {} /\ EmptyTables /\ serial = TRUE /\ EnginesAt("off", "off", "off")

\* no run_daily_update
OrchIdle ==
    /\ th = [n \in (Independent \cup Dependent) |-> "none"]
    /\ etl = [n \in Independent |->
                [errors |-> FALSE, job_errors |-> FALSE, data |-> <<>>,
                 records_loaded |-> 0]]
    /\ existing_companies = {} /\ co_i = 0 /\ co_closed = FALSE
    /\ dependent_etls = <<>>
    /\ results = [n \in (Independent \cup Dependent) |-> "not_run"]
    /\ all_success = TRUE /\ any_success = FALSE /\ exit_code = NULL
    /\ stg_prices = {} /\ stg_income = {}

\* no run() of a source pipeline
SourceIdle ==
    /\ src_i = 0 /\ src_raw = 0 /\ src_job_errors = 0
    /\ src_result = [status |-> "running", end_time |-> FALSE, errors |-> 0,
                     records_extracted |-> 0, records_transformed |-> 0,
                     records_loaded |-> 0]
    /\ src_saves = 0 /\ src_save_raised = FALSE /\ src_phase_raised = FALSE

SourceOff ==
    /\ SourceIdle
    /\ src_pc = "off" /\ src_engine = "none"
    /\ src_cfg = [symbols |-> 0, update_analytics |-> FALSE, monitor |-> FALSE]

OrchOff ==
    /\ SourceOff
    /\ OrchIdle
    /\ orch_pc = "off" /\ dry_run = FALSE /\ dim_company = {}
    /\ cli = [symbols |-> <<>>, skip |-> {}, skip_analytics |-> FALSE]

\* no run() before the first one
FirstRun == rerun = FALSE /\ prior = NewResult /\ OrchOff

CalcOff ==
    /\ FirstRun
    /\ calc_pc = "off" /\ calc_engine = "none" /\ calc_in = <<>> /\ calc_i = 0
    /\ calc_out = <<>> /\ calculation_errors = 0 /\ calc_metadata = NoMetadata

\* the TTM engine next to concurrent fundamentals loads
InitTTM ==
    /\ BaseOff /\ CalcOff
    /\ fin \in {InitialFilings, {r \in InitialFilings : r.fiscal # 0}, SameDayFilings}
    /\ EmptyTables
    /\ serial = FALSE
    /\ EnginesAt("idle", "off", "off")

SpecTTM ==
    InitTTM /\ [][MergeFinancials \/ TTMExtract \/ TTMTransform \/ TTMLoad]_vars

\* the daily pipeline: loads and engines one after the other
InitPipeline ==
    /\ BaseOff /\ CalcOff
    /\ fin = InitialFilings
    /\ EmptyTables
    /\ serial = TRUE
    /\ \/ EnginesAt("idle", "off", "idle")
       \/ EnginesAt("off", "idle", "off")

NextPipeline ==
    \/ MergeFinancials \/ LoadPrices
    \/ TTMExtract \/ TTMTransform \/ TTMLoad
    \/ RatioExtract \/ RatioTransform \/ RatioLoad
    \/ MMExtract \/ MMTransform \/ MMLoad

SpecPipeline == InitPipeline /\ [][NextPipeline]_vars

\* BaseETL.__init__
InitBase ==
    /\ WarehouseOff /\ CalcOff
    /\ max_retries \in 1..MaxRetriesCfg
    /\ batch_size \in 1..MaxBatchCfg
    /\ monitor \in BOOLEAN
    /\ hooks \in BOOLEAN
    /\ pc = "init"
    /\ attempt = 0
    /\ result = NewResult
    /\ raw_data = <<>>
    /\ transformed_data = <<>>
    /\ layer = 0
    /\ offset = 0
    /\ total_loaded = 0
    /\ exc = NoExc
    /\ current_job_id = NoJob
    /\ saved = {}
    /\ dq_issues = {}
    /\ hook_failed = FALSE
    /\ extract_calls = 0
    /\ extract_returned = <<>>
    /\ transform_calls = <<>>
    /\ transform_returned = FALSE
    /\ load_calls = <<>>
    /\ load_invoked = FALSE
    /\ tries = 0
    /\ exhausted = FALSE

NextBase ==
    /\ RunStart \/ ExtractAttempt \/ TransformStep \/ LoadAttempt \/ Finally
    /\ UNCHANGED <<serial, whVars, ttmVars, ratVars, mmVars, prev, auxVars>>

SpecBase == InitBase /\ [][NextBase]_vars

\* run() is called once more on the object whose run() returned or raised: the locals
\* of run() are fresh, the fields of the object are as they were left
RunAgain ==
    /\ pc \in {"returned", "raised"}
    /\ ~rerun
    /\ rerun' = TRUE
    /\ prior' = result
    /\ pc' = "init"
    /\ exc' = NoExc
    /\ attempt' = 0 /\ raw_data' = <<>> /\ transformed_data' = <<>>
    /\ layer' = 0 /\ offset' = 0 /\ total_loaded' = 0
    /\ hook_failed' = FALSE /\ extract_calls' = 0 /\ extract_returned' = <<>>
    /\ transform_calls' = <<>> /\ transform_returned' = FALSE /\ load_calls' = <<>>
    /\ load_invoked' = FALSE /\ tries' = 0 /\ exhausted' = FALSE
    /\ UNCHANGED <<max_retries, batch_size, monitor, hooks, result, current_job_id, saved,
                   dq_issues>>
    /\ UNCHANGED <<serial, whVars, ttmVars, ratVars, mmVars, prev, calcVars, orchVars,
                   srcVars>>

\* a pipeline object built with one attempt per call and run twice
InitRerun ==
    /\ InitBase
    /\ max_retries = 1 /\ batch_size = 1 /\ ~hooks

SpecRerun ==
    InitRerun /\ [][NextBase \/ RunAgain]_vars

\* a BaseETL pipeline object or the daily pipeline
SpecRuns == (InitBase \/ InitPipeline) /\ [][NextBase \/ NextPipeline]_vars

\* one transform() call of the ratio or of the market-metrics engine
InitCalc ==
    /\ BaseOff /\ WarehouseOff /\ FirstRun
    /\ calc_pc = "loop"
    /\ calc_engine \in {"ratio", "metrics"}
    /\ calc_in \in { <<CalcRecord(1, FALSE, vals)>> : vals \in ExtractedValues(calc_engine) }
                   \cup Batches(calc_engine)
                   \cup { <<CalcRecord(1, FALSE, Example(calc_engine))>> }
    /\ calc_i = 0 /\ calc_out = <<>> /\ calculation_errors = 0
    /\ calc_metadata = NoMetadata

SpecCalc ==
    InitCalc /\ [][CalcRecordStep \/ CalcReturn]_vars

\* one run_daily_update on a warehouse that knows the company or does not
InitOrch ==
    /\ BaseOff /\ WarehouseOff
    /\ rerun = FALSE /\ prior = NewResult
    /\ calc_pc = "off" /\ calc_engine = "none" /\ calc_in = <<>> /\ calc_i = 0
    /\ calc_out = <<>> /\ calculation_errors = 0 /\ calc_metadata = NoMetadata
    /\ OrchIdle /\ SourceOff
    /\ orch_pc = "start"
    /\ cli \in [symbols : {<<>>, <<1>>}, skip : SUBSET (Independent \cup Dependent),
                skip_analytics : BOOLEAN]
    /\ dry_run \in BOOLEAN
    /\ dim_company \in {{}, {KnownCompany}}

SpecOrch ==
    /\ InitOrch
    /\ [][ OrchStart \/ CompanyExtract \/ CompanyLoad \/ CompanyUnchanged \/ CompanyClose
           \/ CompanyInsert \/ CompanyReturn \/ PriceExtract \/ PriceLoad \/ PriceFact \/
           FinancialExtract \/ FinancialLoad \/ FinancialFact \/ Collect \/ DependentCall
           \/ DependentReturn \/ OrchReturn ]_vars

\* one run() of the price or of the financial-statement pipeline
InitSource ==
    /\ BaseOff /\ WarehouseOff
    /\ rerun = FALSE /\ prior = NewResult
    /\ calc_pc = "off" /\ calc_engine = "none" /\ calc_in = <<>> /\ calc_i = 0
    /\ calc_out = <<>> /\ calculation_errors = 0 /\ calc_metadata = NoMetadata
    /\ OrchIdle
    /\ orch_pc = "off" /\ dry_run = FALSE /\ dim_company = {}
    /\ cli = [symbols |-> <<>>, skip |-> {}, skip_analytics |-> FALSE]
    /\ SourceIdle
    /\ src_pc = "extract"
    /\ src_engine \in {"price", "financial"}
    /\ src_cfg \in [symbols : 1..MaxSymbols, update_analytics : BOOLEAN, monitor : BOOLEAN]

SpecSource ==
    /\ InitSource
    /\ [][ SourceExtractSymbol \/ SourceExtracted \/ SourceTransformLoad \/ SourceFact \/
           SourceSave \/ SourceExcept ]_vars

\* ------------------------------------------------------------------ claims

\* C1: a TTM record is calculated for the date of its triggering acceptance, and every
\* fundamentals row that contributes to it is a quarterly row of its company accepted
\* no later than the triggering acceptance.
C1_NoLookAhead ==
    \A t \in ttm \cup ttm_records :
        /\ t.calculation_date = DateOf(t.accepted_date)
        /\ \A q \in t.contributing :
             /\ q.company = t.company
             /\ IsQuarterly(q.ptype)
             /\ TsLeq(q.accepted, t.accepted_date)

\* a loaded record for which a quarter with a later fiscal date was on file, accepted
\* after the triggering acceptance
C1_Witness ==
    \E t \in ttm :
        /\ t.quarters_included = 4
        /\ \E q \in t.withheld : q.fiscal > t.newest_quarter_date

\* C2: every TTM record has quarters_included = 4, and a company with fewer than 4
\* quarterly fundamentals has no TTM record.
C2_ExactFour ==
    /\ \A t \in ttm \cup ttm_records : t.quarters_included = 4
    /\ \A c \in Companies :
         Cardinality({r \in fin : r.company = c /\ IsQuarterly(r.ptype)}) < 4
            => ~\E t \in ttm : t.company = c

\* C3: each extracted market-metrics row carries, if any, a quarterly row of its company
\* accepted at or before its price date such that no quarterly row of the company
\* accepted at or before the price date is later; likewise for the TTM record; and it
\* carries at least one of the two.
C3_PointInTime ==
    mm_pc = "extracted" =>
      \A x \in mm_raw :
        /\ x.financial # NoRow =>
             /\ x.financial \in fin
             /\ x.financial.company = x.price.company
             /\ IsQuarterly(x.financial.ptype)
             /\ TsLeq(x.financial.accepted, Midnight(x.price.date))
             /\ \A o \in fin :
                  (o.company = x.price.company /\ IsQuarterly(o.ptype)
                   /\ TsLeq(o.accepted, Midnight(x.price.date)))
                     => TsLeq(o.accepted, x.financial.accepted)
        /\ x.ttm # NoRow =>
             /\ x.ttm \in ttm
             /\ x.ttm.company = x.price.company
             /\ TsLeq(x.ttm.accepted_date, Midnight(x.price.date))
             /\ \A o \in ttm :
                  (o.company = x.price.company
                   /\ TsLeq(o.accepted_date, Midnight(x.price.date)))
                     => TsLeq(o.accepted_date, x.ttm.accepted_date)
        /\ x.financial # NoRow \/ x.ttm # NoRow

\* an extracted row with both records attached although a quarterly row accepted later
\* on the price date is on file, next to a price row left out for want of both
C3_Witness ==
    /\ mm_pc = "extracted"
    /\ \E x \in mm_raw :
         /\ x.financial # NoRow
         /\ x.ttm # NoRow
         /\ \E q \in fin : /\ q.company = x.price.company
                           /\ IsQuarterly(q.ptype)
                           /\ DateOf(q.accepted) = x.price.date
                           /\ ~TsLeq(q.accepted, Midnight(x.price.date))
         /\ \E o \in fin : /\ o.company = x.price.company
                           /\ IsQuarterly(o.ptype)
                           /\ o.accepted # x.financial.accepted
                           /\ TsLeq(o.accepted, x.financial.accepted)
    /\ \E p \in prices : \A x \in mm_raw : x.price # p

\* what the extraction of the engine of the last run selects with the same arguments
SecondExtraction ==
    CASE prev.engine = "ttm" -> TTMExtractQuery(fin, ttm, prev.args)
      [] prev.engine = "ratio" -> RatioExtractQuery(fin, ratios, prev.args)
      [] prev.engine = "mm" -> MMSelected(prices, fin, ttm, metrics, prev.args)
      [] OTHER -> {}

ExtractExhausted ==
    pc \notin {"off", "init", "extract"} /\ extract_returned = <<>>

\* C5: extract() is retried until an attempt returns or max_retries attempts raised;
\* the run continues with exactly the records the successful attempt returned; when
\* every attempt raised, the last exception leaves run(), the status is failed, the
\* exception text is in result.errors and neither transform() nor load() was called.
C5_ExtractRetry ==
    /\ extract_calls <= max_retries
    /\ pc = "extract" => (extract_calls = attempt /\ extract_returned = <<>>)
    /\ extract_returned # <<>> =>
          /\ pc \notin {"off", "init", "extract"}
          /\ raw_data = extract_returned[1]
          /\ \A i \in 1..Len(transform_calls) : transform_calls[i] = extract_returned[1]
    /\ ExtractExhausted =>
          /\ extract_calls = max_retries
          /\ pc \in {"finally", "raised"}
          /\ exc = [src |-> "extract", n |-> max_retries]
          /\ result.status = "failed"
          /\ \E i \in 1..Len(result.errors) : result.errors[i] = StrErr(exc)
          /\ transform_calls = <<>>
          /\ ~load_invoked

C5_Witness ==
    /\ pc = "raised"
    /\ max_retries > 1
    /\ extract_calls = max_retries
    /\ exc.src = "extract"

\* C6: a load batch is attempted at most max_retries times; when its last attempt
\* fails no later load() call is made, the exception leaves run() and the status is
\* failed.
C6_LoadFailureAborts ==
    /\ tries <= max_retries
    /\ pc = "load" => tries < max_retries
    /\ exhausted =>
          /\ pc \in {"finally", "raised"}
          /\ tries = max_retries
          /\ exc = [src |-> "load", n |-> max_retries]
          /\ result.status = "failed"
    /\ (pc = "returned" /\ load_invoked) => ~exhausted

C6_Witness ==
    /\ pc = "raised"
    /\ exhausted
    /\ max_retries > 1
    /\ load_calls # <<>>
    /\ \/ layer < Len(transformed_data)
       \/ offset + batch_size < Len(transformed_data[layer].recs)

\* C7: when run() returns without raising, the status is partial if result.errors
\* holds an error and success only if result.errors is empty.
C7_StatusReflectsErrors ==
    pc = "returned" =>
        /\ Len(result.errors) > 0 => result.status = "partial"
        /\ result.status = "success" => Len(result.errors) = 0

\* BaseETL.run() after an extract() that returned no record
BaseEmptyExtractNoOp ==
    (extract_returned = <<(<<>>)>>) =>
        /\ pc \in {"finally", "returned"}
        /\ exc = NoExc
        /\ result.status = "success"
        /\ result.records_extracted = 0
        /\ result.records_transformed = 0
        /\ result.records_loaded = 0
        /\ transform_calls = <<>>
        /\ ~load_invoked

\* MarketMetricsETL.run() after an extract() that returned no record
MMEmptyExtractNoOp ==
    (prev.engine = "mm" /\ prev.yielded = 0) =>
        /\ prev.out = EmptySummary
        /\ prev.calls = {"extract"}

C9_OnlyExtractOrLoadRaise ==
    pc = "raised" => exc.src \in {"extract", "load"}

\* C10: the successful extract() returns before transform() is called, transform()
\* is called at most once and returns before the first load() call, and load() is
\* never called in a run in which transform() did not return.
C10_PhaseOrdering ==
    /\ Len(transform_calls) <= 1
    /\ transform_calls # <<>> => (extract_returned # <<>> /\ pc # "extract")
    /\ transform_returned => Len(transform_calls) = 1
    /\ pc = "load" => transform_returned
    /\ load_invoked => transform_returned
    /\ pc = "transform" => (~load_invoked /\ ~transform_returned)

C10_Witness ==
    /\ pc = "returned"
    /\ extract_calls > 1
    /\ Len(load_calls) > 1
    /\ result.status = "partial"

\* the slices of at most size records of one layer, in order (reference)
RECURSIVE SlicesFrom(_, _, _, _)
SlicesFrom(name, recs, from, size) ==
    IF from >= Len(recs) THEN <<>>
    ELSE LET to == IF from + size <= Len(recs) THEN from + size ELSE Len(recs)
         IN  <<[layer |-> name, offset |-> from, batch |-> SubSeq(recs, from + 1, to)]>>
               \o SlicesFrom(name, recs, to, size)

\* the slices of every layer, in the order the layers were emitted (reference)
RECURSIVE ExpectedCalls(_, _)
ExpectedCalls(td, size) ==
    IF td = <<>> THEN <<>>
    ELSE SlicesFrom(Head(td).name, Head(td).recs, 0, size) \o ExpectedCalls(Tail(td), size)

RECURSIVE SumLoaded(_)
SumLoaded(calls) == IF calls = <<>> THEN 0 ELSE Head(calls).loaded + SumLoaded(Tail(calls))

\* the load() calls that returned, without the values they returned
CallsMade == [i \in 1..Len(load_calls) |->
                [layer |-> load_calls[i].layer, offset |-> load_calls[i].offset,
                 batch |-> load_calls[i].batch]]

\* C11: the load() calls that returned are, in order, the consecutive slices of at most
\* batch_size records of each non-empty layer; when the load phase ends without an
\* exception every slice was loaded by exactly one call, a layer of n records in
\* ceil(n / batch_size) calls, and records_loaded is the sum of the returned values.
C11_BatchSplitting ==
    LET expected == ExpectedCalls(transformed_data, batch_size)
    IN  /\ Len(load_calls) <= Len(expected)
        /\ CallsMade = SubSeq(expected, 1, Len(load_calls))
        /\ (pc \in {"finally", "returned"} /\ exc = NoExc /\ transform_returned) =>
             /\ CallsMade = expected
             /\ \A j \in 1..Len(transformed_data) :
                  Cardinality({i \in 1..Len(load_calls) :
                                 load_calls[i].layer = transformed_data[j].name})
                    = (Len(transformed_data[j].recs) + batch_size - 1) \div batch_size
             /\ result.records_loaded = SumLoaded(load_calls)

\* a run without a failing load attempt that loaded two layers, one of them in more
\* than one batch with a shorter last batch or in single-record batches
C11_Witness ==
    /\ pc = "returned"
    /\ max_retries = 1
    /\ Len(transformed_data) = 2
    /\ Len(load_calls) > 2
    /\ \E i \in 1..Len(load_calls) : load_calls[i].offset > 0
    /\ result.records_loaded = Len(transformed_data[1].recs) + Len(transformed_data[2].recs)

\* ----------------------------------------------------------------------------
\* the inputs each computed field divides by
RatioDenominators(r) ==
    [gross_margin |-> {r["REVENUE"]}, operating_margin |-> {r["REVENUE"]},
     profit_margin |-> {r["REVENUE"]}, roe |-> {r["TOTAL_EQUITY"]},
     roa |-> {r["TOTAL_ASSETS"]}, current_ratio |-> {r["CURRENT_LIABILITIES"]},
     quick_ratio |-> {r["CURRENT_LIABILITIES"]}, debt_to_equity |-> {r["TOTAL_EQUITY"]},
     debt_to_assets |-> {r["TOTAL_ASSETS"]}, asset_turnover |-> {r["TOTAL_ASSETS"]},
     book_value_per_share |-> {r["SHARES_OUTSTANDING"]}]

MetricDenominators(r) ==
    LET shares == Or(r["TTM_SHARES_OUTSTANDING"], r["QUARTERLY_SHARES_OUTSTANDING"])
    IN  [market_cap |-> {}, enterprise_value |-> {}, peg_ratio |-> {},
         pe_ratio |-> {r["QUARTERLY_EPS_DILUTED"]},
         pe_ratio_ttm |-> {r["TTM_EPS_DILUTED"]},
         pb_ratio |-> {r["BOOK_VALUE_PER_SHARE"]},
         ps_ratio |-> {r["QUARTERLY_REVENUE_PER_SHARE"]},
         ps_ratio_ttm |-> {r["TTM_REVENUE"], shares},
         ev_to_revenue |-> {r["QUARTERLY_REVENUE_PER_SHARE"], shares},
         ev_to_revenue_ttm |-> {r["TTM_REVENUE"]},
         ev_to_ebitda |-> {r["TTM_OPERATING_INCOME"]},
         ev_to_ebit |-> {r["TTM_OPERATING_INCOME"]},
         dividend_yield |-> {shares, r["CLOSE_PRICE"]},
         payout_ratio |-> {r["TTM_NET_INCOME"]}]

Denominators(engine, r) ==
    IF engine = "ratio" THEN RatioDenominators(r) ELSE MetricDenominators(r)

\* the emitted records that came from input record i
EmittedFor(i) == { j \in 1..Len(calc_out) : calc_out[j].key = calc_in[i].key }

\* C12: division safety. Every well-formed input record the loop has passed is emitted
\* exactly once, whatever its amounts; each of its fields that divides by an input
\* that is zero, negative or null is null; no field is the outcome of a division by
\* zero; and only malformed records are counted as calculation errors.
C12_DivisionSafety ==
    /\ \A i \in 1..calc_i :
         ~calc_in[i].malformed =>
           /\ Cardinality(EmittedFor(i)) = 1
           /\ \A j \in EmittedFor(i) :
                LET out == calc_out[j].fields
                    dens == Denominators(calc_engine, calc_in[i].v)
                IN  /\ DOMAIN out = DOMAIN dens
                    /\ \A f \in DOMAIN out :
                         /\ out[f] # ZeroDivision
                         /\ (\E d \in dens[f] : d = NULL \/ d <= 0) => out[f] = None
    /\ calculation_errors = Cardinality({i \in 1..calc_i : calc_in[i].malformed})

\* a metrics record with a zero EPS and a null TTM revenue is emitted with those
\* multiples null and the others computed
C12_Witness ==
    /\ calc_pc = "returned" /\ calc_engine = "metrics"
    /\ Len(calc_in) = 1 /\ Len(calc_out) = 1 /\ calculation_errors = 0
    /\ calc_in[1].v["QUARTERLY_EPS_DILUTED"] = 0
    /\ calc_in[1].v["TTM_REVENUE"] = NULL
    /\ calc_out[1].fields.pe_ratio = None
    /\ calc_out[1].fields.ps_ratio_ttm = None
    /\ calc_out[1].fields.pb_ratio = <<100>>

\* ----------------------------------------------------------------------------
WellFormed(rec) == ~rec.malformed

\* C19: per-record error isolation. While transform() loops, the records emitted plus
\* the errors counted are the records passed; when it returns it has passed every
\* input record, the two numbers it reports add up to the length of the input, and
\* the records emitted are the well-formed input records, in input order.
C19_ErrorIsolation ==
    /\ Len(calc_out) + calculation_errors = calc_i
    /\ calc_pc = "returned" =>
         LET kept == SelectSeq(calc_in, WellFormed)
         IN  /\ calc_i = Len(calc_in)
             /\ calc_metadata.records_transformed = Len(calc_out)
             /\ calc_metadata.records_transformed + calc_metadata.calculation_errors
                  = Len(calc_in)
             /\ Len(calc_out) = Len(kept)
             /\ \A j \in 1..Len(kept) :
                  /\ calc_out[j].key = kept[j].key
                  /\ calc_out[j].fields = CalcFields(calc_engine, kept[j].v)

\* the first of two records failed and the second one was still emitted
C19_Witness ==
    /\ calc_pc = "returned" /\ Len(calc_in) = MaxCalcRecs
    /\ calc_in[1].malformed /\ ~calc_in[MaxCalcRecs].malformed
    /\ Len(calc_out) = MaxCalcRecs - 1
    /\ calc_out[Len(calc_out)].key = MaxCalcRecs
    /\ calc_metadata.calculation_errors = 1

\* ----------------------------------------------------------------------------
\* the quarterly rows of a company on file and accepted at or before a timestamp
Knowable(f, company, a) ==
    { q \in f : q.company = company /\ IsQuarterly(q.ptype) /\ TsLeq(q.accepted, a) }

\* S is the four rows of `rows` with the latest fiscal dates
LatestFour(S, rows) ==
    /\ S \subseteq rows
    /\ Cardinality(S) = 4
    /\ \A q \in S : \A p \in rows \ S : p.fiscal < q.fiscal

\* a TTM record agrees with the reference aggregation over the table f
AgreesWithReference(f, r) ==
    \E S \in SUBSET Knowable(f, r.company, r.accepted_date) :
        /\ LatestFour(S, Knowable(f, r.company, r.accepted_date))
        /\ r.contributing = S
        /\ r.quarters_included = 4
        /\ \E q1, q2, q3, q4 \in S :
             /\ q1.fiscal < q2.fiscal /\ q2.fiscal < q3.fiscal /\ q3.fiscal < q4.fiscal
             /\ r.ttm_revenue = q1.revenue + q2.revenue + q3.revenue + q4.revenue
             /\ r.latest_shares_outstanding = q4.shares
             /\ r.newest_quarter_date = q4.fiscal
             /\ r.oldest_quarter_date = q1.fiscal

\* C13: TTM aggregation against a reference. Every record transform() builds is
\* computed from the four quarterly rows with the latest fiscal dates among those of
\* the company accepted at or before the triggering acceptance: its flow field is the
\* sum over those four rows and its stock field is the value of the latest of them.
C13_TTMAggregation ==
    [][(ttm_pc = "extracted" /\ ttm_pc' = "transformed") =>
          \A r \in ttm_records' : AgreesWithReference(fin, r)]_vars

\* ----------------------------------------------------------------------------
\* C14: TTM uniqueness. The TTM table holds at most one record for a company and a
\* calculation date, and an extraction yields at most one opportunity for them.
C14_TTMUniqueness ==
    /\ \A a, b \in ttm :
         (a.company = b.company /\ a.calculation_date = b.calculation_date) => a = b
    /\ \A a, b \in opportunities :
         (a.company = b.company /\ a.calculation_date = b.calculation_date) => a = b

\* ----------------------------------------------------------------------------
\* a market-metrics row exists for the company and price date
HasMetric(mm, company, date) == \E m \in mm : m.company = company /\ m.date = date

\* C15: market-metric uniqueness. The market-metrics table never holds two records of
\* one company and price date; an extraction never returns a price whose company and
\* date have a record, and a load never writes a record for such a pair.
C15_MetricUniqueness ==
    /\ [](\A a, b \in metrics : (a.company = b.company /\ a.date = b.date) => a = b)
    /\ [][/\ (mm_pc = "idle" /\ mm_pc' = "extracted") =>
               \A x \in mm_raw' : ~HasMetric(metrics, x.price.company, x.price.date)
          /\ (mm_pc = "transformed" /\ mm_pc' = "idle") =>
               /\ \A r \in mm_records : ~HasMetric(metrics, r.company, r.date)
               /\ \A a, b \in mm_records :
                    (a.company = b.company /\ a.date = b.date) => a = b
               /\ metrics' \ metrics \subseteq mm_records]_vars

\* a later run, whose arguments cover a price that has a record, extracts another price
C15_Witness ==
    /\ mm_pc = "extracted" /\ mm_raw # {}
    /\ \E m \in metrics : SymbolMatch(mm_args.symbols, m.company) /\ DateMatch(mm_args, m.date)

\* ----------------------------------------------------------------------------
\* save_job_result was called by the run that ended and raised
SaveRaised == pc \in {"returned", "raised"} /\ monitor /\ current_job_id = NoJob

\* C16: monitoring persistence cannot fail the pipeline. Every job row is written from
\* a result whose status is final and whose end_time is set, and the step that
\* persists the result (or fails to) changes neither the status nor the errors of the
\* result nor the exception in flight: run() returns iff none was in flight before.
C16_PersistenceSwallowed ==
    [][(pc = "finally" /\ pc' # "finally") =>
          /\ result.status \in {"success", "partial", "failed"}
          /\ result'.status = result.status
          /\ result'.errors = result.errors
          /\ result'.end_time = TRUE
          /\ exc' = exc
          /\ pc' = (IF exc = NoExc THEN "returned" ELSE "raised")
          /\ \A r \in saved' \ saved :
               /\ r.status = result'.status
               /\ r.end_time = result'.end_time
               /\ r.error_count = Len(result'.errors)]_vars

\* a run with monitoring loaded its records, could not persist its result, and
\* returned success
C16_Witness ==
    /\ SaveRaised /\ pc = "returned"
    /\ load_calls # <<>>
    /\ result.status = "success" /\ result.errors = <<>> /\ result.end_time = TRUE

\* ----------------------------------------------------------------------------
\* transform() returned a non-empty staging layer with records that fail validation
InvalidStaging ==
    /\ transform_returned
    /\ \E i \in 1..Len(transformed_data) :
         /\ transformed_data[i].name = "staging"
         /\ Len(transformed_data[i].recs) > 0
         /\ transformed_data[i].invalid > 0

\* C17: validation never blocks load. Once transform() has returned records that fail
\* validation, the run goes on to call load(): it fails only if load() itself raises,
\* and a run that ended has called load().
C17_ValidationNeverBlocks ==
    InvalidStaging =>
      /\ exc.src \in {"none", "load"}
      /\ pc \in {"finally", "returned", "raised"} => load_invoked

\* ----------------------------------------------------------------------------
\* the errors the second run() appended to the result
OwnErrors == SubSeq(result.errors, Len(prior.errors) + 1, Len(result.errors))

\* C18: the result is not reused across runs. When the second run() on an object has
\* ended, its result holds only the errors that run appended, the counts of the phases
\* that run went through, and a status that no error of the first run has changed.
C18_ResultNotReused ==
    (rerun /\ pc \in {"returned", "raised"}) =>
      /\ result.errors = OwnErrors
      /\ (OwnErrors = <<>> /\ exc = NoExc) => result.status = "success"
      /\ ~transform_returned => result.records_transformed = 0
      /\ ~load_invoked => result.records_loaded = 0

\* ----------------------------------------------------------------------------
\* the last run was a TTM run that returned success with fewer records loaded than
\* opportunities extracted: an aggregation failed and its opportunity was dropped
TTMDropped ==
    /\ prev.engine = "ttm" /\ "transform" \in prev.calls
    /\ prev.out.status = "success"
    /\ prev.out.records_loaded < prev.yielded

\* C20: no silent calculation failures in the TTM engine. A TTM run that dropped an
\* opportunity reports a positive count of calculation errors to its caller.
C20_NoSilentFailure == TTMDropped => prev.out.calculation_errors > 0

\* ----------------------------------------------------------------------------
\* the last run of a derived engine ended because the warehouse write of load() raised
EngineLoadFailed ==
    /\ prev.engine \in {"ttm", "ratio", "mm"}
    /\ "load" \in prev.calls
    /\ prev.out.status = "failed"

\* C21: load-error semantics in the derived engines. A run whose warehouse write
\* failed made max_retries attempts at it, ended with failed status, and left the
\* exception to the caller of run().
C21_EngineLoadRetried ==
    EngineLoadFailed =>
      /\ prev.load_attempts = EngineMaxRetries
      /\ prev.out.status = "failed"
      /\ prev.propagated


\* the dependent pipelines selected before n in the order of the run
SelectedBefore(n) ==
    CASE n = "ttm_calculation" -> {}
      [] n = "ratio" -> {m \in {"ttm_calculation"} : Selected(cli, m)}
      [] OTHER -> {m \in {"ttm_calculation", "ratio"} : Selected(cli, m)}

\* C22 Orchestration order: the selected independent pipelines are all started before
\* the caller waits, and the caller goes on only when each of them has finished; a
\* dependent pipeline starts only after every selected independent pipeline has
\* finished; at most one dependent pipeline runs at a time, and TTM, ratio and market
\* metrics start in that order, each after the one before it has returned.
C22_OrchestrationOrder ==
    /\ orch_pc = "group1" =>
          \A i \in Independent : Selected(cli, i) => th[i] # "none"
    /\ (orch_pc \in {"group2", "returned"} /\ cli.symbols # <<>>) =>
          \A i \in Independent : Selected(cli, i) => th[i] = "collected"
    /\ \A d \in Dependent :
          th[d] # "none" =>
            /\ Selected(cli, d)
            /\ \A i \in Independent : Selected(cli, i) => th[i] = "collected"
            /\ \A m \in SelectedBefore(d) : th[m] = "returned"
    /\ Cardinality({d \in Dependent : th[d] = "running"}) <= 1

\* the market-metrics pipeline is running after the five others
C22_Witness ==
    /\ cli.skip = {} /\ ~dry_run
    /\ th["market_metrics"] = "running"
    /\ th["ttm_calculation"] = "returned" /\ th["ratio"] = "returned"
    /\ \A i \in Independent : th[i] = "collected"

\* the three independent pipelines ran to the end without an error of their own
ParallelPhaseClean ==
    /\ orch_pc \in {"group2", "returned"}
    /\ ~cli.skip_analytics
    /\ \A i \in Independent :
          results[i] = "success" /\ ~etl[i].errors /\ ~etl[i].job_errors

\* C23 Interleaving independence: whatever the interleaving of the company, price and
\* financial pipelines, the price fact table and the fundamentals fact table end up
\* with the rows of the run company, then price, then financial, in which the fact
\* tables are filled from the staged rows joined to the company rows as the company
\* pipeline left them.
C23_InterleavingIndependence ==
    ParallelPhaseClean =>
      /\ prices = PriceSource(stg_prices, dim_company)
      /\ fin = FinancialSource(stg_income, dim_company)

\* every request of the price pipeline raised
PriceRequestsRaised ==
    /\ ~dry_run /\ Selected(cli, "price") /\ th["price"] \in {"done", "collected"}
    /\ etl["price"].job_errors /\ etl["price"].data = {}

\* the pipelines run_daily_update selected and ran
Ran == { n \in (Independent \cup Dependent) : Selected(cli, n) }

\* C24 Orchestrator failure reporting: when every request of the price pipeline raised
\* and the company pipeline succeeded, the price pipeline is recorded as failed and the
\* exit code is 1; the exit code is 0 only if every selected pipeline succeeded, and 2
\* if none did.
C24_FailureReporting ==
    (orch_pc = "returned" /\ cli.symbols # <<>>) =>
      /\ (PriceRequestsRaised /\ results["company"] = "success") =>
            results["price"] = "failed" /\ exit_code = 1
      /\ exit_code = 0 =>
            \A n \in Ran : results[n] \in {"success", "partial", "dry_run"}
      /\ (Ran # {} /\ \A n \in Ran : results[n] = "failed") => exit_code = 2

\* C25 Fundamentals are immutable: a record of FACT_FINANCIALS, once there, is in the
\* table unchanged after every step (same accepted date, same figures), and the table
\* never holds two records for one (company, fiscal date, period type).
C25_FundamentalsImmutable ==
    /\ [][\A x \in fin : x \in fin']_vars
    /\ [](\A x, y \in fin : FinancialKey(x) = FinancialKey(y) => x = y)

\* n / d * scale to two decimals, in hundredths
Hundredths(n, d, scale) == <<(n * scale * 100) \div d>>

\* the extracted record an emitted record was computed from
InputOf(o) == calc_in[o.key].v

\* C26 Computed values match the formulas: in every record the ratio engine emits,
\* profit_margin is net_income / revenue x 100 when revenue is positive, roe is
\* net_income / total_equity x 100 when equity is positive (10.0 and 20.0 for revenue
\* 1,000,000, net income 100,000, equity 500,000) and quick_ratio equals current_ratio;
\* in every record the market-metrics engine emits, pe_ratio_ttm is close_price / TTM
\* diluted EPS when that EPS is positive (20.0 for 100 and 5) and ev_to_ebit equals
\* ev_to_ebitda.
C26_FormulasMatch ==
    \A i \in DOMAIN calc_out :
      LET o == calc_out[i]
          v == InputOf(o)
      IN  IF calc_engine = "ratio"
          THEN /\ (v["REVENUE"] > 0 /\ v["NET_INCOME"] # NULL) =>
                     o.fields.profit_margin = Hundredths(v["NET_INCOME"], v["REVENUE"], 100)
               /\ (v["TOTAL_EQUITY"] > 0 /\ v["NET_INCOME"] # NULL) =>
                     o.fields.roe = Hundredths(v["NET_INCOME"], v["TOTAL_EQUITY"], 100)
               /\ o.fields.quick_ratio = o.fields.current_ratio
               /\ v = Example("ratio") =>
                     o.fields.profit_margin = <<1000>> /\ o.fields.roe = <<2000>>
          ELSE /\ (v["TTM_EPS_DILUTED"] > 0 /\ v["CLOSE_PRICE"] # NULL) =>
                     o.fields.pe_ratio_ttm =
                         Hundredths(v["CLOSE_PRICE"], v["TTM_EPS_DILUTED"], 1)
               /\ o.fields.ev_to_ebit = o.fields.ev_to_ebitda
               /\ v = Example("metrics") => o.fields.pe_ratio_ttm = <<2000>>

\* the ratio engine has emitted the record of the example
C26_Witness ==
    /\ calc_pc = "returned" /\ calc_engine = "ratio"
    /\ calc_in = <<CalcRecord(1, FALSE, Example("ratio"))>>
    /\ Len(calc_out) = 1
    /\ calc_out[1].fields.profit_margin = <<1000>>

\* save_job_result raised in a run whose extract, transform and load went through
\* without an error
SaveRaisedAfterCleanRun ==
    /\ src_pc \in {"returned", "raised"}
    /\ src_save_raised /\ ~src_phase_raised /\ src_job_errors = 0

\* C27 Monitoring persistence cannot fail the source pipelines: when save_job_result
\* raises in run() of the price or of the financial-statement pipeline after extract,
\* transform and load succeeded, run() returns and the result is reported as success.
C27_MonitoringCannotFail ==
    SaveRaisedAfterCleanRun => src_pc = "returned" /\ src_result.status = "success"

\* C28 Data-quality issues are linked to their run: once run() has ended, every row
\* of ETL_DATA_QUALITY_ISSUES it wrote carries a job id, and it is the id of the
\* ETL_JOB_HISTORY row written for that run.
C28_IssuesLinkedToRun ==
    pc \in {"returned", "raised"} =>
      \A q \in dq_issues :
        /\ q.job_id # NoJob
        /\ q.job_id = current_job_id
        /\ \E row \in saved : row.job_id = q.job_id

\* C29 Single current company version: DIM_COMPANY never holds two rows with
\* is_current = TRUE for one symbol, and when the row of a changed company is about to
\* be inserted, the previous current row of its symbol has been marked not current.
C29_SingleCurrentVersion ==
    /\ \A x, y \in CurrentCompanies(dim_company) : x.symbol = y.symbol => x = y
    /\ (th["company"] = "analytics" /\ co_closed) =>
          ~\E c \in CurrentCompanies(dim_company) : c.symbol = CompanyRecord.symbol

\* C30 Ratio-to-market data flow: every column of a ratio row the market-metrics
\* engine reads is a field the ratio engine writes, and for a ratio record computed
\* from positive revenue and positive shares outstanding, the market-metrics record
\* of a price row joined to it has a quarterly P/S multiple.
C30_RatioToMarketFlow ==
    calc_engine = "ratio" =>
      \A i \in DOMAIN calc_out :
        LET o == calc_out[i]
            v == InputOf(o)
        IN  /\ \A f \in DOMAIN RatioColumnsRead : RatioColumnsRead[f] \in DOMAIN o.fields
            /\ (v["REVENUE"] > 0 /\ v["SHARES_OUTSTANDING"] > 0) =>
                  MetricFields(JoinedToRatio(o.fields)).ps_ratio # None
====
